---- MODULE Spec2Model ----
(***************************************************************************)
(* Agent execution and hook orchestration of verifier-ts:                  *)
(*   AgentRunner.runAgent   src/src/core/agent-runner.ts   (lines 103-175) *)
(*   ToolRunner.runTool     src/src/core/tool-runner.ts    (lines 19-65)   *)
(*   SessionManager         src/src/core/session-manager.ts (lines 7-20)   *)
(*   MetricsStore           src/src/storage/metrics-store.ts               *)
(*   HookManager            src/unnamed/part_010           (lines 140-290) *)
(*                                                                         *)
(* A behaviour is one runAgent call of a freshly constructed AgentRunner    *)
(* (commands/run.ts:104-108) over the metrics directory that earlier        *)
(* processes left behind.  Every await of the source is a step boundary.    *)
(* The behaviours are of two families: an agent that calls no tool, over    *)
(* every metrics directory and ceiling of the bounds; and an agent that     *)
(* calls up to MaxToolCalls tools, over an empty metrics directory.         *)
(* Optional values (x?: T, undefined) are sets: {} is undefined, {v} is v. *)
(* Text is a sequence of pieces; the empty sequence is the empty string.   *)
(***************************************************************************)
EXTENDS Integers, Sequences, FiniteSets, TLC

\* ------------------------------------------------------------------ bounds
\* runTool calls one agent.execute makes
MaxToolCalls == 1
\* characters of a matcher and of a tool name handed to matcherApplies
MaxMatcherLen == 3
\* chunks a hook process writes to its output and diagnostic streams
MaxChunks == 2
\* runAgent calls one runMultiple call has under way together
MaxRuns == 2
\* metrics already in the metrics directory when the run starts
MaxPrior == 1
\* the oldest such metric, in clock ticks (one tick is half a day, see TicksPerDay)
MaxAge == 3

\* ------------------------------------------------------- program constants
\* Number.MAX_SAFE_INTEGER of agent-runner.ts:134; TLC's integers are 32-bit, so the
\* model takes the largest of them: every sum of the model is far below it.
MAX_SAFE_INTEGER == 2147483647
\* 24 * 60 * 60 * 1000 ms of metrics-store.ts:45, counted in clock ticks
TicksPerDay == 2

None == {}
Some(v) == {v}
IsSome(o) == o # {}
Get(o) == CHOOSE v \in o : TRUE
\* x ?? d
OrElse(o, d) == IF o = {} THEN d ELSE Get(o)

\* ------------------------------------------------------------------ agents
\* the agents map handed to the AgentRunner constructor: id -> model of the class
Agents ==
  ("lint" :> <<"n", "o", "n", "e">>)
  @@ ("security-scan" :> <<"g", "p", "t", "-", "4", "o">>)
  @@ ("claude-agent" :> <<"c", "l", "a", "u", "d", "e", "-", "3">>)
AgentIds == DOMAIN Agents
\* ids a caller may pass: the registered ones and one that is not
CallIds == AgentIds \cup {"ghost"}
\* the tools of the agent classes (tools = [new ReadFileTool()]); lint declares none
AgentTools ==
  ("lint" :> {}) @@ ("security-scan" :> {"Read"}) @@ ("claude-agent" :> {"Read"})
\* tool names agent code may ask for
ToolNames == {"Read", "Write"}

startsWith(s, p) ==
  /\ Len(s) >= Len(p)
  /\ SubSeq(s, 1, Len(p)) = p

\* mutant: the 'gemini-' prefix is not known
getProviderFromModel_noGemini(model) ==
  IF startsWith(model, <<"g", "p", "t", "-">>) THEN "openai"
  ELSE IF startsWith(model, <<"c", "l", "a", "u", "d", "e", "-">>) THEN "claude"
  ELSE "generic"

getProviderFromModel(model) ==
  IF startsWith(model, <<"g", "p", "t", "-">>) THEN "openai"
  ELSE IF startsWith(model, <<"c", "l", "a", "u", "d", "e", "-">>) THEN "claude"
  ELSE IF startsWith(model, <<"g", "e", "m", "i", "n", "i", "-">>) THEN "gemini"
  ELSE "generic"

\* this.agents.get(id): {} when the id is not registered
getAgent(id) == IF id \in AgentIds THEN Some(id) ELSE None

\* ------------------------------------------------------------------- hooks
CLAUDE_SYSTEM_REMINDER == "<system-reminder>"
NL == "\n"

ToolChars ==
  [ Read  |-> <<"R", "e", "a", "d">>,
    Write |-> <<"W", "r", "i", "t", "e">> ]

\* String.prototype.trim on a sequence of characters
WhiteSpace == {" ", "\t", "\n"}
RECURSIVE trimStart(_)
trimStart(s) ==
  IF s # <<>> /\ Head(s) \in WhiteSpace THEN trimStart(Tail(s)) ELSE s
RECURSIVE trimEnd(_)
trimEnd(s) ==
  IF s # <<>> /\ s[Len(s)] \in WhiteSpace THEN trimEnd(SubSeq(s, 1, Len(s) - 1)) ELSE s
trim(s) == trimEnd(trimStart(s))

\* the class [.+?^${}()|\[\]\\] of part_010:215
RegexSpecials == {".", "+", "?", "^", "$", "{", "}", "(", ")", "|", "[", "]", "\\"}

\* m.replace(/[.+?^${}()|\[\]\\]/g, '\\$&'): a backslash before every special
RECURSIVE escapeSpecials(_)
escapeSpecials(m) ==
  IF m = <<>> THEN <<>>
  ELSE (IF Head(m) \in RegexSpecials THEN <<"\\", Head(m)>> ELSE <<Head(m)>>)
       \o escapeSpecials(Tail(m))

\* .replace(/\*/g, '.*')
RECURSIVE replaceStars(_)
replaceStars(m) ==
  IF m = <<>> THEN <<>>
  ELSE (IF Head(m) = "*" THEN <<".", "*">> ELSE <<Head(m)>>) \o replaceStars(Tail(m))

\* mutant: '*' becomes '.*' and nothing is escaped
escaped_starsOnly(m) == replaceStars(m)

\* the source of the regular expression between ^ and $
escaped(m) == replaceStars(escapeSpecials(m))

\* new RegExp(`^${source}$`).test(s) for the sources escaped() makes: an atom is a
\* backslash and the character it makes literal, '.' (any character but a line
\* terminator) or a character standing for itself; '*' after an atom repeats it
RECURSIVE regexTest(_, _)
regexTest(source, s) ==
  IF source = <<>> THEN s = <<>>
  ELSE LET esc == Head(source) = "\\" /\ Len(source) >= 2
           n == IF esc THEN 2 ELSE 1
           any == ~esc /\ Head(source) = "."
           fits(c) == IF any THEN c # "\n" ELSE c = source[n]
           star == Len(source) > n /\ source[n + 1] = "*"
           rest == SubSeq(source, n + (IF star THEN 2 ELSE 1), Len(source))
       IN  IF star
             THEN \/ regexTest(rest, s)
                  \/ s # <<>> /\ fits(Head(s)) /\ regexTest(source, Tail(s))
             ELSE s # <<>> /\ fits(Head(s)) /\ regexTest(rest, Tail(s))
\* mutant: every rule applies, whatever its matcher
matcherApplies_always(matcher, toolName) == TRUE

\* matcher and toolName are optional character sequences; !toolName holds of an
\* absent name and of the empty string
matcherApplies(matcher, toolName) ==
  LET m == trim(OrElse(matcher, <<>>))
  IN  IF m = <<>> \/ m = <<"*">> THEN TRUE
      ELSE IF toolName = None \/ toolName = Some(<<>>) THEN FALSE
      ELSE regexTest(escaped(m), Get(toolName))

\* Text is a sequence of pieces (the chunks it was written in).  A JSON document is
\* written as the piece "{" followed by the piece that holds the rest of it.
JsonDoc(cont, decision, ctx) ==
  [continue |-> cont, decision |-> decision, additionalContext |-> ctx]
\* the documents hooks print, by the piece that completes them
JsonDocs ==
  [ block   |-> JsonDoc(None, Some("block"), None),
    stop    |-> JsonDoc(Some(FALSE), None, None),
    approve |-> JsonDoc(Some(TRUE), Some("approve"), Some(<<"ctx">>)) ]
JsonText(name) == <<"{", name>>

\* JSON.parse(result.stdout) followed by the reads of the document's fields: {} when
\* that throws (the text is not one complete document), {doc} otherwise
JSONparse(text) ==
  IF Len(text) = 2 /\ text[1] = "{" /\ text[2] \in DOMAIN JsonDocs
    THEN Some(JsonDocs[text[2]])
    ELSE None

\* what runHookCommand resolves with: {stdout, stderr, code}
HookResult(stdout, stderr, code) == [stdout |-> stdout, stderr |-> stderr, code |-> code]

HookResults ==
  { HookResult(<<>>, <<>>, 0),
    HookResult(<<"plain">>, <<>>, 0),
    HookResult(JsonText("block"), <<>>, 0),
    HookResult(JsonText("stop"), <<>>, 0),
    HookResult(JsonText("approve"), <<>>, 0),
    HookResult(<<>>, <<"denied">>, 2),
    HookResult(<<"plain">>, <<"failed">>, 1),
    HookResult(<<>>, <<"Hook timed out">>, 124),
    HookResult(<<>>, <<"ENOENT">>, -1) }

\* if (result.stdout) { try { JSON.parse(result.stdout) ... } catch { ... } }
IsJson(stdout) == Len(stdout) > 0 /\ IsSome(JSONparse(stdout))
IsPlain(stdout) == Len(stdout) > 0 /\ JSONparse(stdout) = None

\* const DEFAULT_HOOK_TIMEOUT_MS = 10_000
DEFAULT_HOOK_TIMEOUT_MS == 10000

\* one rule of the configuration: {matcher, hooks: [{command, timeout}]}
Rule(matcher, commands) == [matcher |-> matcher, hooks |-> commands]
Cmd(name) == [command |-> name, timeout |-> None]

\* config.hooks of the run: namespace -> event -> rules.  A namespace or an event
\* that is not configured is absent.  Every agent meets events with no rule, with a
\* rule that matches and with a rule that does not.
Hooks ==
  [ generic |-> [ PreToolUse  |-> << Rule(Some(<<"R", "e", "a", "*">>), << Cmd("guard") >>),
                                     Rule(Some(<<"W", "r", "i", "t", "e">>), << Cmd("deny") >>) >> ],
    openai  |-> [ SessionStart |-> << Rule(None, << Cmd("hello") >>) >>,
                  PostToolUse  |-> << Rule(Some(<<"*">>), << Cmd("audit") >>) >>,
                  Stop         |-> << Rule(Some(<<" ">>), << Cmd("bye") >>) >> ] ]

\* this.config.hooks?.[namespace]?.[eventName] || []
rulesOf(hooks, namespace, eventName) ==
  IF namespace \in DOMAIN hooks /\ eventName \in DOMAIN hooks[namespace]
    THEN hooks[namespace][eventName]
    ELSE <<>>

allHooks(hooks, eventName, provider) ==
  rulesOf(hooks, "generic", eventName) \o rulesOf(hooks, provider, eventName)

\* the commands runHookCommand is called for, in call order: the hooks of every rule
\* whose matcher applies
RECURSIVE hooksToRun(_, _)
hooksToRun(hookConfigs, toolName) ==
  IF hookConfigs = <<>> THEN <<>>
  ELSE (IF matcherApplies(Head(hookConfigs).matcher, toolName)
          THEN Head(hookConfigs).hooks
          ELSE <<>>)
       \o hooksToRun(Tail(hookConfigs), toolName)

\* mutants: the exit code is not looked at; the output is not looked at; any
\* non-zero exit code blocks
blocksBy_outputOnly(result) ==
  /\ IsJson(result.stdout)
  /\ \/ Get(JSONparse(result.stdout)).continue = Some(FALSE)
     \/ Get(JSONparse(result.stdout)).decision = Some("block")
blocksBy_exitCodeOnly(result) == result.code = 2
blocksBy_nonZero(result) ==
  \/ /\ IsJson(result.stdout)
     /\ \/ Get(JSONparse(result.stdout)).continue = Some(FALSE)
        \/ Get(JSONparse(result.stdout)).decision = Some("block")
  \/ result.code # 0

\* the body of the inner loop of executeHooks for one result
blocksBy(result) ==
  \/ /\ IsJson(result.stdout)
     /\ \/ Get(JSONparse(result.stdout)).continue = Some(FALSE)
        \/ Get(JSONparse(result.stdout)).decision = Some("block")
  \/ result.code = 2

\* mutant: plain text is context at every event
contextOf_anyEvent(eventName, result) ==
  IF IsJson(result.stdout)
    THEN OrElse(Get(JSONparse(result.stdout)).additionalContext, <<>>)
  ELSE IF IsPlain(result.stdout)
    THEN result.stdout
  ELSE <<>>

\* part_010:182-184 and 188-190: what one result adds to additionalContext
contextOf(eventName, result) ==
  IF IsJson(result.stdout)
    THEN OrElse(Get(JSONparse(result.stdout)).additionalContext, <<>>)
  ELSE IF IsPlain(result.stdout) /\ eventName \in {"UserPromptSubmit", "SessionStart"}
    THEN result.stdout
  ELSE <<>>

RECURSIVE foldResults(_, _, _, _)
foldResults(eventName, delivered, block, ctx) ==
  IF Len(delivered) = 0
    THEN [shouldBlock |-> block, additionalContext |-> Some(ctx)]
    ELSE foldResults(eventName, Tail(delivered),
                     block \/ blocksBy(Head(delivered)),
                     ctx \o contextOf(eventName, Head(delivered)))

\* mutant: every namespace is given the reminder
isClaude_always(namespace) == TRUE

\* provider === 'claude', part_010:158 and 164
isClaude(namespace) == namespace = "claude"

\* executeHooks(eventName, provider, eventData) given the results its hook processes
\* deliver, one per command of hooksToRun
executeHooks(hooks, eventName, provider, toolName, delivered) ==
  IF allHooks(hooks, eventName, provider) = <<>>
    THEN [ shouldBlock |-> FALSE,
           additionalContext |->
             IF isClaude(provider) THEN Some(<<CLAUDE_SYSTEM_REMINDER>>) ELSE None ]
    ELSE foldResults(eventName, delivered, FALSE,
                     IF isClaude(provider) THEN <<CLAUDE_SYSTEM_REMINDER, NL>> ELSE <<>>)

\* the result sequences a dispatch can meet: one result per command run
ResultSeqs(hooks, eventName, provider, toolName) ==
  LET n == Len(hooksToRun(allHooks(hooks, eventName, provider), toolName))
  IN  [1..n -> HookResults]

\* the verdicts a dispatch can return, over all its hooks can deliver
Verdicts(hooks, eventName, provider, toolName) ==
  { executeHooks(hooks, eventName, provider, toolName, delivered) :
      delivered \in ResultSeqs(hooks, eventName, provider, toolName) }

\* ----------------------------------------------------------- metrics store
\* a Metric of metrics-store.ts:7-14 (duration_ms, a difference of two clock reads
\* that nothing reads back, is left out)
Metric(agent_id, timestamp, tokens_used, cost, result) ==
  [ agent_id |-> agent_id, timestamp |-> timestamp, tokens_used |-> tokens_used,
    cost |-> cost, result |-> result ]

\* new Date(ts).toISOString().split('T')[0]: the calendar day of a time
dateOf(timestamp) == timestamp \div TicksPerDay
\* new Date('<day>'): midnight of that day
fileDate(day) == day * TicksPerDay
\* the clock reads of the model: both halves of a day
Times == MaxAge .. MaxAge + TicksPerDay - 1
Days == 0 .. dateOf(MaxAge + TicksPerDay - 1)

\* MetricsStore.record: the day's file read, the metric pushed, the file rewritten;
\* an I/O error (ioOk false) is logged and swallowed
record(dir, metric, ioOk) ==
  IF ioOk
    THEN [dir EXCEPT ![dateOf(metric.timestamp)] = Append(@, metric)]
    ELSE dir

RECURSIVE filterFrom(_, _)
filterFrom(data, start) ==
  IF data = <<>> THEN <<>>
  ELSE (IF Head(data).timestamp >= start THEN <<Head(data)>> ELSE <<>>)
       \o filterFrom(Tail(data), start)

RECURSIVE readFiles(_, _, _)
readFiles(dir, days, start) ==
  IF days = {} THEN <<>>
  ELSE LET d == CHOOSE x \in days : \A y \in days : x <= y
       IN  (IF fileDate(d) >= start THEN filterFrom(dir[d], start) ELSE <<>>)
           \o readFiles(dir, days \ {d}, start)

\* mutant: a directory that cannot be read counts as an exhausted budget
getMetrics_failClosed(dir, t, ioOk) ==
  IF ioOk
    THEN readFiles(dir, DOMAIN dir, t - TicksPerDay)
    ELSE << Metric("", t, MAX_SAFE_INTEGER, 0, "") >>

\* MetricsStore.getMetrics('daily') at time t; [] when reading fails
getMetrics(dir, t, ioOk) ==
  IF ioOk THEN readFiles(dir, DOMAIN dir, t - TicksPerDay) ELSE <<>>

\* todays.reduce((sum, m) => sum + (m.tokens_used || 0), 0)
RECURSIVE sumTokens(_)
sumTokens(todays) ==
  IF todays = <<>> THEN 0 ELSE Head(todays).tokens_used + sumTokens(Tail(todays))

\* this.config.budgets?.daily_tokens ?? Number.MAX_SAFE_INTEGER
dailyCeiling(cfg) == OrElse(cfg.budgets.daily_tokens, MAX_SAFE_INTEGER)

\* mutant: the ceiling itself is still allowed
budgetExhausted_strict(used, cfg) == used > dailyCeiling(cfg)

\* the condition of agent-runner.ts:134
budgetExhausted(used, cfg) == used >= dailyCeiling(cfg)

\* ------------------------------------------------------------------ results
AgentResult(id, status, error, tokens_used, cost, timestamp) ==
  [ agent_id |-> id, status |-> status, error |-> error, tokens_used |-> tokens_used,
    cost |-> cost, timestamp |-> timestamp ]

notFoundResult(id, t) ==
  AgentResult(id, "failure", Some(<<"Agent ", id, " not found">>), None, None, t)
skippedResult(id, t) ==
  AgentResult(id, "skipped", Some(<<"Daily token budget exhausted">>), None, None, t)
errorResult(id, t) ==
  AgentResult(id, "failure", Some(<<"Agent execution failed">>), None, None, t)

\* what an agent's execute can return: createResult with the status, tokens_used and
\* cost the agent chose
AgentReturns(id, t) ==
  { AgentResult(id, "success", None, Some(2), Some(1), t),
    AgentResult(id, "failure", Some(<<"scan failed">>), Some(1), None, t),
    AgentResult(id, "skipped", Some(<<"No diff">>), None, None, t) }

ToolResult(success, data, error) == [success |-> success, data |-> data, error |-> error]
\* what a tool's execute can return (read-file-tool.ts:8-20)
ToolReturns ==
  { ToolResult(TRUE, Some(<<"content">>), None),
    ToolResult(FALSE, None, Some(<<"Error reading file">>)) }
toolNotFound(toolName) ==
  ToolResult(FALSE, None, Some(<<"Tool ", toolName, " not found">>))
toolBlocked == ToolResult(FALSE, None, Some(<<"Tool execution blocked by PreToolUse hook">>))
toolError(toolName) ==
  ToolResult(FALSE, None, Some(<<"Error executing tool ", toolName, ": ", "message">>))

Return(v) == [kind |-> "return", value |-> v]
Throw == [kind |-> "throw", value |-> <<>>]

\* the configurations a runner is constructed with
Configs ==
  { [budgets |-> [daily_tokens |-> c], hooks |-> h] :
      c \in {None, Some(0), Some(2)}, h \in {Hooks} }

\* the metrics directories a run can find: up to MaxPrior metrics of earlier runs,
\* each stored by record in the file of its day, the earlier run's before the later's
PriorMetrics(t) ==
  { Metric("security-scan", t - age, tokens, 1, "success") :
      age \in 0 .. MaxAge, tokens \in {2, 3} }
EmptyDir == [d \in Days |-> <<>>]
RECURSIVE PriorDirs(_, _)
PriorDirs(t, n) ==
  IF n = 0 THEN {EmptyDir}
  ELSE LET less == PriorDirs(t, n - 1)
           later(dir) ==
             { m \in PriorMetrics(t) :
                 \A d \in Days : \A k \in 1..Len(dir[d]) : dir[d][k].timestamp <= m.timestamp }
       IN  less \cup UNION { { record(dir, m, TRUE) : m \in later(dir) } : dir \in less }

\* -------------------------------------------------------------------- state
VARIABLES
  config,      \* the Config of the AgentRunner and its HookManager
  metricsDir,  \* .verifier/metrics: day -> the metrics of <day>.json
  now,         \* the wall clock
  pc,          \* where the run in flight stands
  id,          \* runAgent's id argument
  context,     \* runAgent's context argument (the caller's object)
  session,     \* the SessionManager of the run: its id and its transcript file
  dispatches,  \* the executeHooks calls of the run, in call order
  recorded,    \* the metrics.record calls of the run, in call order
  toolRunner,  \* whether new ToolRunner(...) was reached
  executions,  \* agent.execute invocations of the run
  agentOutcome,\* how agent.execute ended: {} while it has not
  pending,     \* the completion of the try/catch block the finally block holds
  returned,    \* how runAgent ended: {} while it has not
  gate,        \* the usage the budget check summed: {} while it has not
  metricsRead, \* whether getMetrics could read the directory: {} before the check
  startContext,\* sessionStartResult.additionalContext as line 125 reads it: {} before
               \* the dispatch, {{}} when the verdict has none
  tool,        \* the runTool call in flight, or the last one
  toolCalls,   \* runTool calls of this agent.execute
  toolLimit    \* runTool calls the agent's execute makes at most

\* one executeHooks call followed hook process by hook process
VARIABLES
  dispatch,          \* its arguments: eventName, provider, eventData.tool_name
  hpc,               \* where the call stands
  rules,             \* the rules of allHooks the outer loop has yet to visit
  hookQueue,         \* the hooks of the rule in hand the inner loop has yet to run
  shouldBlock,       \* the local of executeHooks
  additionalContext, \* the local of executeHooks
  children,          \* the processes runHookCommand has spawned, in spawn order
  cmd,               \* the locals of the runHookCommand call in flight
  results,           \* what runHookCommand resolved with, in order, and what the
                     \* child of each had written by then
  verdict            \* what executeHooks returned: {} while it has not

\* one matcherApplies call: its arguments and what it returned ({} before it has)
VARIABLE matching

\* one runMultiple(ids, context, {parallel: true}) call: its runAgent calls and the
\* transcript files of the sessions directory
VARIABLES
  runs,      \* the runAgent calls of Promise.all, in the order of ids
  sessions,  \* .verifier/sessions: sessionId -> the records of <sessionId>.jsonl
  batch      \* the runMultiple call: its options, its out array, how it ended

runVars ==
  << metricsDir, now, pc, id, context, session, dispatches, recorded,
     toolRunner, executions, agentOutcome, pending, returned, gate, metricsRead, startContext, tool, toolCalls,
     toolLimit >>
dispatchVars ==
  << dispatch, hpc, rules, hookQueue, shouldBlock, additionalContext, children, cmd,
     results, verdict >>
multiVars == << runs, sessions, batch >>
vars == << config, runVars, dispatchVars, matching, multiVars >>

storeVars == << config, metricsDir, now, toolLimit >>
toolVars == << tool, toolCalls >>

NoSession == [open |-> FALSE, sessionId |-> 0, transcript |-> <<>>]
\* a runTool call: its toolName argument, the lengths of the transcript and of the
\* dispatches when it began (log0, disp0) and when it completed (log1, disp1), the
\* PreToolUse verdict's shouldBlock, the tool.execute calls, how tool.execute ended
\* and how runTool ended
NoTool ==
  [ name |-> "", log0 |-> 0, disp0 |-> 0, log1 |-> 0, disp1 |-> 0, preBlock |-> None,
    executed |-> 0, outcome |-> None, returned |-> None ]

\* SessionManager.log: JSON.stringify(data) + '\n' appended to the transcript
log(s, data) == [s EXCEPT !.transcript = Append(@, data)]

LogRecord(type, payload) == [type |-> type, payload |-> payload]

\* one executeHooks call: its arguments and the shouldBlock of the verdict it returned
Dispatch(eventName, provider, tool_name, tool_response, result) ==
  [ hook_event_name |-> eventName, provider |-> provider, tool_name |-> tool_name,
    tool_response |-> tool_response, shouldBlock |-> result.shouldBlock ]

provider == getProviderFromModel(Agents[id])

\* the values of the dispatch variables while no executeHooks call is followed
NoCmd ==
  [ stdout |-> <<>>, stderr |-> <<>>, settled |-> FALSE, timedOut |-> FALSE,
    killTimer |-> FALSE, delay |-> 0 ]
NoDispatch ==
  /\ dispatch = [eventName |-> "", provider |-> "", tool_name |-> None]
  /\ hpc = "idle"
  /\ rules = <<>>
  /\ hookQueue = <<>>
  /\ shouldBlock = FALSE
  /\ additionalContext = <<>>
  /\ children = <<>>
  /\ cmd = NoCmd
  /\ results = <<>>
  /\ verdict = None
NoMatching == [matcher |-> None, toolName |-> None, returned |-> None]
\* no runMultiple call is followed
\* const { parallel = true, failFast = false } = options, agent-runner.ts:178
NoCall == [parallel |-> TRUE, failFast |-> FALSE, out |-> <<>>, returned |-> None]
NoMulti ==
  /\ runs = <<>>
  /\ sessions = <<>>
  /\ batch = NoCall

\* the values of the run's variables before runAgent is called
NoRun ==
  /\ pc = "idle"
  /\ id = "ghost"
  /\ context = [diff |-> None]
  /\ session = NoSession
  /\ dispatches = <<>>
  /\ recorded = <<>>
  /\ toolRunner = FALSE
  /\ executions = 0
  /\ agentOutcome = None
  /\ pending = None
  /\ returned = None
  /\ gate = None
  /\ metricsRead = None
  /\ startContext = None
  /\ tool = NoTool
  /\ toolCalls = 0

\* a process that has no run under way
Quiet ==
  /\ metricsDir = EmptyDir
  /\ now = MaxAge
  /\ toolLimit = 0
  /\ NoRun

\* a runner whose agents make no tool call, with no hook configured, over the metrics
\* directories earlier runs can have left; or one whose agents call tools, with the
\* hooks configured, over an empty directory
Init ==
  /\ \/ /\ toolLimit = 0
        /\ config \in { [c EXCEPT !.hooks = <<>>] : c \in Configs }
        /\ now \in Times
        /\ metricsDir \in PriorDirs(now, MaxPrior)
     \/ /\ toolLimit = MaxToolCalls
        /\ config \in Configs
        /\ now = MaxAge
        /\ metricsDir = EmptyDir
  /\ NoRun
  /\ NoDispatch
  /\ matching = NoMatching
  /\ NoMulti

\* mutant: the session is opened and its 'start' record written before the lookup
runAgent_start_sessionFirst(i, diff, logOk) ==
  /\ pc = "idle"
  /\ id' = i
  /\ context' = [diff |-> diff]
  /\ LET opened == [open |-> TRUE, sessionId |-> 1, transcript |-> <<>>]
     IN  IF logOk
           THEN /\ session' = log(opened, LogRecord("start", <<i>>))
                /\ IF getAgent(i) = None
                     THEN /\ returned' = Some(Return(notFoundResult(i, now)))
                          /\ pc' = "returned"
                     ELSE /\ returned' = None
                          /\ pc' = "SessionStart"
           ELSE /\ session' = opened
                /\ returned' = Some(Throw)
                /\ pc' = "returned"
  /\ UNCHANGED << dispatchVars, matching, multiVars, storeVars, dispatches, recorded, toolRunner, executions, agentOutcome,
                  pending, gate, metricsRead, startContext, toolVars >>

\* runAgent(id, context), agent-runner.ts:103-111: getAgent, new SessionManager(),
\* session.log({type: 'start'}); logOk is whether appendFileSync succeeds
runAgent_start(i, diff, logOk) ==
  /\ pc = "idle"
  /\ id' = i
  /\ context' = [diff |-> diff]
  /\ IF getAgent(i) = None
       THEN /\ session' = NoSession
            /\ returned' = Some(Return(notFoundResult(i, now)))
            /\ pc' = "returned"
       ELSE LET opened == [open |-> TRUE, sessionId |-> 1, transcript |-> <<>>]
            IN  IF logOk
                  THEN /\ session' = log(opened, LogRecord("start", <<i>>))
                       /\ returned' = None
                       /\ pc' = "SessionStart"
                  ELSE /\ session' = opened
                       /\ returned' = Some(Throw)
                       /\ pc' = "returned"
  /\ UNCHANGED << dispatchVars, matching, multiVars, storeVars, dispatches, recorded, toolRunner, executions, agentOutcome,
                  pending, gate, metricsRead, startContext, toolVars >>

\* mutant: the hooks' context takes the place of the diff
mergeContext_replaces(diff, extra) == Some(extra)

\* `${context.diff || ''}\n${sessionStartResult.additionalContext}`, agent-runner.ts:127
mergeContext(diff, extra) == Some(OrElse(diff, <<>>) \o <<NL>> \o extra)

\* mutant: a blocking SessionStart verdict ends the run as an exhausted budget does
runAgent_sessionStart_gated(logOk) ==
  /\ pc = "SessionStart"
  /\ \E sessionStartResult \in Verdicts(config.hooks, "SessionStart", provider, None) :
     LET extra == OrElse(sessionStartResult.additionalContext, <<>>)
     IN  /\ startContext' = Some(sessionStartResult.additionalContext)
         /\ dispatches' = Append(dispatches,
                                 Dispatch("SessionStart", provider, None, None,
                                          sessionStartResult))
         /\ IF sessionStartResult.shouldBlock
              THEN /\ returned' = Some(Return(skippedResult(id, now)))
                   /\ pc' = "returned"
                   /\ UNCHANGED << context, session >>
              ELSE IF extra # <<>>
                THEN /\ context' = [diff |-> mergeContext(context.diff, extra)]
                     /\ IF logOk
                          THEN /\ session' = log(session, LogRecord("context", extra))
                               /\ pc' = "budget"
                               /\ UNCHANGED returned
                          ELSE /\ returned' = Some(Throw)
                               /\ pc' = "returned"
                               /\ UNCHANGED session
                ELSE /\ pc' = "budget"
                     /\ UNCHANGED << context, session, returned >>
  /\ UNCHANGED << dispatchVars, matching, multiVars, storeVars, id, recorded, toolRunner, executions, agentOutcome,
                  pending, gate, metricsRead, toolVars >>

\* agent-runner.ts:113-129: the SessionStart dispatch and the merge of its context
runAgent_sessionStart(logOk) ==
  /\ pc = "SessionStart"
  /\ \E sessionStartResult \in Verdicts(config.hooks, "SessionStart", provider, None) :
     LET extra == OrElse(sessionStartResult.additionalContext, <<>>)
     IN  /\ startContext' = Some(sessionStartResult.additionalContext)
         /\ dispatches' = Append(dispatches,
                                 Dispatch("SessionStart", provider, None, None,
                                          sessionStartResult))
         /\ IF extra # <<>>
              THEN /\ context' = [diff |-> mergeContext(context.diff, extra)]
                   /\ IF logOk
                        THEN /\ session' = log(session, LogRecord("context", extra))
                             /\ pc' = "budget"
                             /\ UNCHANGED returned
                        ELSE /\ returned' = Some(Throw)
                             /\ pc' = "returned"
                             /\ UNCHANGED session
              ELSE /\ pc' = "budget"
                   /\ UNCHANGED << context, session, returned >>
  /\ UNCHANGED << dispatchVars, matching, multiVars, storeVars, id, recorded, toolRunner, executions, agentOutcome,
                  pending, gate, metricsRead, toolVars >>

\* agent-runner.ts:131-148: the budget gate, then new ToolRunner(...) and the call
\* of agent.execute; readOk is whether the metrics directory can be read
runAgent_budget(readOk) ==
  /\ pc = "budget"
  /\ LET todays == getMetrics(metricsDir, now, readOk)
         used == sumTokens(todays)
     IN  /\ gate' = Some(used)
         /\ metricsRead' = Some(readOk)
         /\ IF budgetExhausted(used, config)
              THEN /\ returned' = Some(Return(skippedResult(id, now)))
                   /\ pc' = "returned"
                   /\ UNCHANGED << toolRunner, executions >>
              ELSE /\ toolRunner' = TRUE
                   /\ executions' = executions + 1
                   /\ pc' = "execute"
                   /\ UNCHANGED returned
  /\ UNCHANGED << dispatchVars, matching, multiVars, storeVars, id, context, session, dispatches, recorded,
                  agentOutcome, pending, startContext, toolVars >>

\* agent.execute returns a result
agent_return(result) ==
  /\ pc = "execute"
  /\ agentOutcome' = Some(Return(result))
  /\ pc' = "record"
  /\ UNCHANGED << dispatchVars, matching, multiVars, storeVars, id, context, session, dispatches, recorded,
                  toolRunner, executions, pending, returned, gate, metricsRead, startContext, toolVars >>

\* agent.execute throws
agent_throw ==
  /\ pc = "execute"
  /\ agentOutcome' = Some(Throw)
  /\ pc' = "catch"
  /\ UNCHANGED << dispatchVars, matching, multiVars, storeVars, id, context, session, dispatches, recorded,
                  toolRunner, executions, pending, returned, gate, metricsRead, startContext, toolVars >>

\* agent-runner.ts:149-158: metrics.record of the agent's result, session.log of it,
\* return result; a throwing session.log is caught by the catch block of line 159
runAgent_record(ioOk, logOk) ==
  /\ pc = "record"
  /\ LET result == Get(agentOutcome).value
         m == Metric(id, result.timestamp, OrElse(result.tokens_used, 0),
                     OrElse(result.cost, 0), result.status)
     IN  /\ recorded' = Append(recorded, m)
         /\ metricsDir' = record(metricsDir, m, ioOk)
         /\ IF logOk
              THEN /\ session' = log(session, LogRecord("result", result))
                   /\ pending' = Some(Return(result))
                   /\ pc' = "finally"
              ELSE /\ pc' = "catch"
                   /\ UNCHANGED << session, pending >>
  /\ UNCHANGED << dispatchVars, matching, multiVars, config, now, toolLimit, id, context, dispatches, toolRunner, executions,
                  agentOutcome, returned, gate, metricsRead, startContext, toolVars >>

\* agent-runner.ts:159-165: the catch block
runAgent_catch(ioOk, logOk) ==
  /\ pc = "catch"
  /\ LET m == Metric(id, now, 0, 0, "failure")
     IN  /\ recorded' = Append(recorded, m)
         /\ metricsDir' = record(metricsDir, m, ioOk)
  /\ IF logOk
       THEN /\ session' = log(session, LogRecord("error", errorResult(id, now)))
            /\ pending' = Some(Return(errorResult(id, now)))
       ELSE /\ pending' = Some(Throw)
            /\ UNCHANGED session
  /\ pc' = "finally"
  /\ UNCHANGED << dispatchVars, matching, multiVars, config, now, toolLimit, id, context, dispatches, toolRunner, executions,
                  agentOutcome, returned, gate, metricsRead, startContext, toolVars >>

\* agent-runner.ts:166-174: the finally block, then the completion of the call
runAgent_finally(logOk) ==
  /\ pc = "finally"
  /\ \E stopResult \in Verdicts(config.hooks, "Stop", provider, None) :
     \* the verdict is awaited and not read
     dispatches' = Append(dispatches, Dispatch("Stop", provider, None, None, stopResult))
  /\ IF logOk
       THEN /\ session' = log(session, LogRecord("stop", <<>>))
            /\ returned' = pending
       ELSE /\ returned' = Some(Throw)
            /\ UNCHANGED session
  /\ pc' = "returned"
  /\ UNCHANGED << dispatchVars, matching, multiVars, storeVars, id, context, recorded, toolRunner, executions,
                  agentOutcome, pending, gate, metricsRead, startContext, toolVars >>

\* ------------------------------------------------------------------ runTool
toolName == Some(ToolChars[tool.name])

\* mutant: the lookup finds every tool of the process, not the agent's own
toolRegistered_anyTool(name) == name \in ToolNames

\* this.tools.get(toolName) of tool-runner.ts:20: whether the run's agent declares it
toolRegistered(name) == name \in AgentTools[id]

\* runTool's completion, with the lengths of the transcript and of the dispatches
\* when it completes
toolReturn(call, completion, transcript, dispatched) ==
  [call EXCEPT !.returned = Some(completion),
               !.log1 = Len(transcript),
               !.disp1 = Len(dispatched)]

\* tool-runner.ts:19-25: the lookup and session.log({type: 'tool_start'}), called by
\* the agent's execute
runTool_begin(name, logOk) ==
  /\ pc = "execute"
  /\ toolCalls < toolLimit
  /\ toolCalls' = toolCalls + 1
  /\ LET call == [ NoTool EXCEPT !.name = name,
                                 !.log0 = Len(session.transcript),
                                 !.disp0 = Len(dispatches) ]
     IN  IF ~toolRegistered(name)
           THEN /\ tool' = toolReturn(call, Return(toolNotFound(name)),
                                      session.transcript, dispatches)
                /\ UNCHANGED << session, pc >>
           ELSE IF logOk
             THEN /\ tool' = call
                  /\ session' = log(session, LogRecord("tool_start", <<name>>))
                  /\ pc' = "PreToolUse"
             ELSE /\ tool' = toolReturn(call, Throw, session.transcript, dispatches)
                  /\ UNCHANGED << session, pc >>
  /\ UNCHANGED << dispatchVars, matching, multiVars, storeVars, id, context, dispatches, recorded, toolRunner,
                  executions, agentOutcome, pending, returned, gate, metricsRead, startContext >>

\* mutant: the verdict is not consulted
runTool_gate_ignoresBlock(call, block, dispatched) ==
  /\ tool' = call
  /\ pc' = "toolExecute"

\* tool-runner.ts:39-43: what runTool does with the PreToolUse verdict
runTool_gate(call, block, dispatched) ==
  IF block
    THEN /\ tool' = toolReturn(call, Return(toolBlocked), session.transcript, dispatched)
         /\ pc' = "execute"
    ELSE /\ tool' = call
         /\ pc' = "toolExecute"

\* tool-runner.ts:26-41: the PreToolUse dispatch and the block
runTool_preToolUse ==
  /\ pc = "PreToolUse"
  /\ \E preToolResult \in Verdicts(config.hooks, "PreToolUse", provider, toolName) :
     LET dispatched == Append(dispatches,
                              Dispatch("PreToolUse", provider, Some(tool.name), None,
                                       preToolResult))
     IN  /\ dispatches' = dispatched
         /\ runTool_gate([tool EXCEPT !.preBlock = Some(preToolResult.shouldBlock)],
                         preToolResult.shouldBlock, dispatched)
  /\ UNCHANGED << dispatchVars, matching, multiVars, storeVars, id, context, session, recorded, toolRunner,
                  executions, agentOutcome, pending, returned, gate, metricsRead, startContext, toolCalls >>

\* tool-runner.ts:60-64: the catch block of runTool
runTool_catch(call, logOk, dispatched) ==
  IF logOk
    THEN LET s == log(session, LogRecord("tool_error", toolError(call.name)))
         IN  /\ session' = s
             /\ tool' = toolReturn(call, Return(toolError(call.name)), s.transcript,
                                   dispatched)
    ELSE /\ tool' = toolReturn(call, Throw, session.transcript, dispatched)
         /\ UNCHANGED session

\* tool-runner.ts:43-59: tool.execute returns result; tool_end is logged, PostToolUse
\* dispatched, result returned; a throwing session.log lands in the catch block
runTool_executeReturns(result, logOk, logOk2) ==
  /\ pc = "toolExecute"
  /\ LET call == [tool EXCEPT !.executed = @ + 1, !.outcome = Some(Return(result))]
     IN  IF logOk
           THEN \E postToolResult \in Verdicts(config.hooks, "PostToolUse", provider, toolName) :
                LET s == log(session, LogRecord("tool_end", result))
                    dispatched ==
                      Append(dispatches,
                             Dispatch("PostToolUse", provider, Some(tool.name), Some(result),
                                      postToolResult))
                IN  \* the verdict is awaited and not read
                    /\ session' = s
                    /\ dispatches' = dispatched
                    /\ tool' = toolReturn(call, Return(result), s.transcript, dispatched)
           ELSE /\ runTool_catch(call, logOk2, dispatches)
                /\ UNCHANGED dispatches
  /\ pc' = "execute"
  /\ UNCHANGED << dispatchVars, matching, multiVars, storeVars, id, context, recorded, toolRunner, executions,
                  agentOutcome, pending, returned, gate, metricsRead, startContext, toolCalls >>

\* tool-runner.ts:44, 60-64: tool.execute throws
runTool_executeThrows(logOk) ==
  /\ pc = "toolExecute"
  /\ runTool_catch([tool EXCEPT !.executed = @ + 1, !.outcome = Some(Throw)], logOk,
                   dispatches)
  /\ pc' = "execute"
  /\ UNCHANGED << dispatchVars, matching, multiVars, storeVars, id, context, dispatches, recorded, toolRunner,
                  executions, agentOutcome, pending, returned, gate, metricsRead, startContext, toolCalls >>

\* ------------------------------------------------ executeHooks, step by step
\* what a hook command does when it runs to its end: the chunks it writes to its
\* output and to its diagnostic stream, and its exit code
Script(out, err, code) == [stdout |-> out, stderr |-> err, code |-> code]
Scripts ==
  { script \in { Script(<<>>, <<>>, 0),
                 Script(<<"plain">>, <<>>, 0),
                 Script(JsonText("block"), <<>>, 0),
                 Script(JsonText("stop"), <<>>, 0),
                 Script(JsonText("stop"), <<>>, 1),
                 Script(JsonText("approve"), <<>>, 0),
                 Script(<<>>, <<"denied">>, 2),
                 Script(<<"plain">>, <<>>, 2),
                 Script(JsonText("approve"), <<>>, 2),
                 Script(<<"plain">>, <<"failed">>, 1),
                 Script(JsonText("block") \o <<"plain">>, <<>>, 0),
                 Script(JsonText("block"), <<"warned">>, 0) } :
      Len(script.stdout) + Len(script.stderr) <= MaxChunks }
\* the commands of the configurations: 'note' prints a line, 'veto' prints a block
\* decision, any other command may do anything a hook can do
Behaviours(command) ==
  IF command = "note" THEN { Script(<<"plain">>, <<>>, 0) }
  ELSE IF command = "veto" THEN { Script(JsonText("block"), <<>>, 0) }
  ELSE Scripts

\* the child of spawn(command, [], {shell: true, ...}): what it has yet to write, what
\* it wrote that the dispatcher has not read yet, all it wrote, and its exit code once
\* it has ended ({} when a signal ended it).  phase: failed (it could not be started),
\* running, ended (the process is gone), exited ('exit' was emitted)
Child(command, spawned, script) ==
  [ command |-> command,
    phase   |-> IF spawned THEN "running" ELSE "failed",
    script  |-> [stdout |-> script.stdout, stderr |-> script.stderr],
    pipe    |-> [stdout |-> <<>>, stderr |-> <<>>],
    wrote   |-> [stdout |-> <<>>, stderr |-> <<>>],
    exit    |-> script.code,
    code    |-> None ]
child == children[Len(children)]

\* configurations of the hooks: none at all; the one of the runs; three '*' rules
\* on one event; rules of the generic and of two provider sets on the same events
ThreeHooks ==
  [ openai |-> [ PreToolUse |-> << Rule(Some(<<"*">>), << Cmd("note") >>),
                                   Rule(Some(<<"*">>), << Cmd("veto") >>),
                                   Rule(Some(<<"*">>), << Cmd("note") >>) >> ] ]
MixedHooks ==
  [ generic |-> [ PreToolUse   |-> << Rule(None, << Cmd("note") >>) >>,
                  SessionStart |-> << Rule(Some(<<"R", "e", "a", "*">>), << Cmd("note") >>) >> ],
    openai  |-> [ PreToolUse   |-> << Rule(Some(<<"R", "e", "a", "*">>),
                                           << Cmd("guard"), Cmd("veto") >>) >>,
                  UserPromptSubmit |-> << Rule(None, << Cmd("note") >>) >> ],
    claude  |-> [ PreToolUse   |-> << Rule(Some(<<"W", "r", "i", "t", "e">>), << Cmd("note") >>) >>,
                  SessionStart |-> << Rule(None, << Cmd("hello") >>) >> ] ]
HookSets == { <<>>, Hooks, ThreeHooks, MixedHooks }
EventNames == {"SessionStart", "UserPromptSubmit", "PreToolUse", "PostToolUse", "Stop"}
Providers == {"generic", "openai", "claude"}

DispatchInit ==
  /\ config \in { [budgets |-> [daily_tokens |-> None], hooks |-> h] : h \in HookSets }
  /\ dispatch \in [ eventName : EventNames, provider : Providers,
                     tool_name : {None, Some(ToolChars.Read), Some(ToolChars.Write)} ]
  /\ hpc = "call"
  /\ rules = <<>>
  /\ hookQueue = <<>>
  /\ shouldBlock = FALSE
  /\ additionalContext = <<>>
  /\ children = <<>>
  /\ cmd = NoCmd
  /\ results = <<>>
  /\ verdict = None
  /\ Quiet
  /\ matching = NoMatching
  /\ NoMulti

\* part_010:148-164: the rules of the event, the early return, the locals
executeHooks_call ==
  /\ hpc = "call"
  /\ LET all == allHooks(config.hooks, dispatch.eventName, dispatch.provider)
     IN  IF all = <<>>
           THEN /\ verdict' =
                     Some([ shouldBlock |-> FALSE,
                            additionalContext |->
                              IF isClaude(dispatch.provider)
                                THEN Some(<<CLAUDE_SYSTEM_REMINDER>>)
                                ELSE None ])
                /\ hpc' = "returned"
                /\ UNCHANGED << rules, shouldBlock, additionalContext >>
           ELSE /\ shouldBlock' = FALSE
                /\ additionalContext' =
                     (IF isClaude(dispatch.provider)
                        THEN <<CLAUDE_SYSTEM_REMINDER, NL>>
                        ELSE <<>>)
                /\ rules' = all
                /\ hpc' = "loop"
                /\ UNCHANGED verdict
  /\ UNCHANGED << config, runVars, matching, multiVars, dispatch, hookQueue, children, cmd, results >>

\* mutant: a timeout resolves as an ordinary failure does, without the reserved code
\* and the diagnostic
finalize_plainFailure(code) ==
  IF cmd.timedOut
    THEN HookResult(cmd.stdout, cmd.stderr, 1)
    ELSE HookResult(cmd.stdout, cmd.stderr, Get(code))

\* part_010:264-277: finalize(code), what it resolves the promise with
finalize(code) ==
  IF cmd.timedOut
    THEN HookResult(cmd.stdout,
                    (IF cmd.stderr # <<>> THEN cmd.stderr \o <<NL>> ELSE <<>>)
                      \o <<"Hook timed out">>,
                    124)
    ELSE HookResult(cmd.stdout, cmd.stderr, Get(code))

\* mutant: the loop goes on to its next hook while the child still runs
awaited_never == TRUE

\* await this.runHookCommand(...), part_010:169: the promise is resolved
awaited == cmd.settled

\* mutant: a hook's context is put before what is there
settle_prepends(result) ==
  /\ cmd' = [cmd EXCEPT !.settled = TRUE, !.killTimer = FALSE]
  /\ children' =
       [children EXCEPT ![Len(children)] =
          [@ EXCEPT !.phase = IF @ = "failed" THEN "failed" ELSE "exited",
                    !.script = [stdout |-> <<>>, stderr |-> <<>>],
                    !.pipe = [stdout |-> <<>>, stderr |-> <<>>]]]
  /\ results' = Append(results, [ result   |-> result,
                                  wrote    |-> child.wrote,
                                  timedOut |-> cmd.timedOut,
                                  command  |-> child.command ])
  /\ shouldBlock' = (shouldBlock \/ blocksBy(result))
  /\ additionalContext' = contextOf(dispatch.eventName, result) \o additionalContext

\* mutant: the verdict is the last hook's, an earlier block is forgotten
settle_lastWins(result) ==
  /\ cmd' = [cmd EXCEPT !.settled = TRUE, !.killTimer = FALSE]
  /\ children' =
       [children EXCEPT ![Len(children)] =
          [@ EXCEPT !.phase = IF @ = "failed" THEN "failed" ELSE "exited",
                    !.script = [stdout |-> <<>>, stderr |-> <<>>],
                    !.pipe = [stdout |-> <<>>, stderr |-> <<>>]]]
  /\ results' = Append(results, [ result   |-> result,
                                  wrote    |-> child.wrote,
                                  timedOut |-> cmd.timedOut,
                                  command  |-> child.command ])
  /\ shouldBlock' = blocksBy(result)
  /\ additionalContext' = additionalContext \o contextOf(dispatch.eventName, result)

\* part_010:169-201 after resolve(result): the promise is settled, the timer cleared
\* and the awaiting loop body interprets the result
settle(result) ==
  /\ cmd' = [cmd EXCEPT !.settled = TRUE, !.killTimer = FALSE]
  /\ children' =
       [children EXCEPT ![Len(children)] =
          [@ EXCEPT !.phase = IF @ = "failed" THEN "failed" ELSE "exited",
                    !.script = [stdout |-> <<>>, stderr |-> <<>>],
                    !.pipe = [stdout |-> <<>>, stderr |-> <<>>]]]
  /\ results' = Append(results, [ result   |-> result,
                                  wrote    |-> child.wrote,
                                  timedOut |-> cmd.timedOut,
                                  command  |-> child.command ])
  /\ shouldBlock' = (shouldBlock \/ blocksBy(result))
  /\ additionalContext' = additionalContext \o contextOf(dispatch.eventName, result)

\* Math.max(1, timeout ?? DEFAULT_HOOK_TIMEOUT_MS), part_010:251: the delay of the
\* kill timer in ms
killDelay(timeout) ==
  LET given == OrElse(timeout, DEFAULT_HOOK_TIMEOUT_MS)
  IN  IF given > 1 THEN given ELSE 1

\* part_010:168-169, 229-254: the next hook of the rule: spawn, the locals, the timer
runHookCommand_spawn ==
  /\ hpc \in {"loop", "await"}
  /\ hookQueue # <<>>
  /\ children # <<>> => awaited
  /\ \E spawned \in BOOLEAN :
       \E script \in (IF spawned THEN Behaviours(Head(hookQueue).command)
                                 ELSE { Script(<<>>, <<>>, 0) }) :
         children' = Append(children, Child(Head(hookQueue).command, spawned, script))
  /\ cmd' = [NoCmd EXCEPT !.killTimer = TRUE, !.delay = killDelay(Head(hookQueue).timeout)]
  /\ hookQueue' = Tail(hookQueue)
  /\ hpc' = "await"
  /\ UNCHANGED << config, runVars, matching, multiVars, dispatch, rules, shouldBlock,
                  additionalContext, results, verdict >>

\* the child writes the next chunk to one of its streams
child_write(stream) ==
  /\ hpc = "await"
  /\ child.phase = "running"
  /\ child.script[stream] # <<>>
  /\ children' =
       [children EXCEPT ![Len(children)] =
          [@ EXCEPT !.script[stream] = Tail(@),
                    !.pipe[stream] = Append(@, Head(child.script[stream])),
                    !.wrote[stream] = Append(@, Head(child.script[stream]))]]
  /\ UNCHANGED << config, runVars, matching, multiVars, dispatch, hpc, rules, hookQueue,
                  shouldBlock, additionalContext, cmd, results, verdict >>

\* the child has written all it writes and ends with its exit code
child_ends ==
  /\ hpc = "await"
  /\ child.phase = "running"
  /\ child.script.stdout = <<>>
  /\ child.script.stderr = <<>>
  /\ children' =
       [children EXCEPT ![Len(children)] =
          [@ EXCEPT !.phase = "ended", !.code = Some(child.exit)]]
  /\ UNCHANGED << config, runVars, matching, multiVars, dispatch, hpc, rules, hookQueue,
                  shouldBlock, additionalContext, cmd, results, verdict >>

\* mutant: the timer marks the invocation and sends no signal
killTimer_fires_noKill ==
  /\ hpc = "await"
  /\ cmd.killTimer
  /\ child.phase # "failed"
  /\ cmd' = [cmd EXCEPT !.timedOut = TRUE, !.killTimer = FALSE]
  /\ UNCHANGED << config, runVars, matching, multiVars, dispatch, hpc, rules, hookQueue,
                  shouldBlock, additionalContext, children, results, verdict >>

\* part_010:246-251: the timer fires: timedOut = true, child.kill('SIGKILL').  The
\* 'error' of a child that could not be started is emitted before any timer is due.
killTimer_fires ==
  /\ hpc = "await"
  /\ cmd.killTimer
  /\ child.phase # "failed"
  /\ cmd' = [cmd EXCEPT !.timedOut = TRUE, !.killTimer = FALSE]
  /\ children' =
       [children EXCEPT ![Len(children)] =
          IF @.phase = "running" THEN [@ EXCEPT !.phase = "ended"] ELSE @]
  /\ UNCHANGED << config, runVars, matching, multiVars, dispatch, hpc, rules, hookQueue,
                  shouldBlock, additionalContext, results, verdict >>

\* part_010:256-262: child.stdout.on('data') and child.stderr.on('data')
child_onData(stream) ==
  /\ hpc = "await"
  /\ child.pipe[stream] # <<>>
  /\ cmd' = [cmd EXCEPT ![stream] = Append(@, Head(child.pipe[stream]))]
  /\ children' = [children EXCEPT ![Len(children)] = [@ EXCEPT !.pipe[stream] = Tail(@)]]
  /\ UNCHANGED << config, runVars, matching, multiVars, dispatch, hpc, rules, hookQueue,
                  shouldBlock, additionalContext, results, verdict >>

\* part_010:280: child.on('exit', finalize).  'close', which part_010:279 hands to
\* finalize too, is emitted after 'exit' and finds the promise settled.
child_onExit ==
  /\ hpc = "await"
  /\ child.phase = "ended"
  /\ settle(finalize(child.code))
  /\ hpc' = "loop"
  /\ UNCHANGED << config, runVars, matching, multiVars, dispatch, rules, hookQueue, verdict >>

\* part_010:281-287: child.on('error'): the command could not be started
child_onError ==
  /\ hpc = "await"
  /\ child.phase = "failed"
  /\ settle(HookResult(<<>>, <<"ENOENT">>, -1))
  /\ hpc' = "loop"
  /\ UNCHANGED << config, runVars, matching, multiVars, dispatch, rules, hookQueue, verdict >>

\* mutant: finalize does not test settled
alreadySettled_never(k) == FALSE

\* if (settled) return, part_010:265, as the handlers of child k read it: the
\* invocations before the last were awaited (line 169), their promise is settled
alreadySettled(k) == k < Len(children) \/ cmd.settled

\* part_010:279: child.on('close', finalize) of child k.  'close' is emitted once the
\* process has ended and its streams are closed, after 'exit', or after 'error' for a
\* child that could not be started (its code is then the negated errno)
child_onClose(k) ==
  /\ k \in 1..Len(children)
  /\ \/ children[k].phase = "exited"
     \/ children[k].phase = "failed" /\ (k < Len(children) \/ cmd.settled)
  /\ IF alreadySettled(k)
       THEN /\ children' = [children EXCEPT ![k].phase = "closed"]
            /\ UNCHANGED << cmd, results, shouldBlock, additionalContext >>
       ELSE settle(finalize(IF children[k].phase = "failed" THEN Some(-2)
                                                             ELSE children[k].code))
  /\ UNCHANGED << config, runVars, matching, multiVars, dispatch, hpc, rules, hookQueue, verdict >>

\* part_010:166-168: the next rule of allHooks and its matcher
executeHooks_rule ==
  /\ hpc = "loop"
  /\ hookQueue = <<>>
  /\ rules # <<>>
  /\ rules' = Tail(rules)
  /\ hookQueue' =
       (IF matcherApplies(Head(rules).matcher, dispatch.tool_name)
          THEN Head(rules).hooks
          ELSE <<>>)
  /\ UNCHANGED << config, runVars, matching, multiVars, dispatch, hpc, shouldBlock,
                  additionalContext, children, cmd, results, verdict >>

\* part_010:204: the loops are over
executeHooks_return ==
  /\ hpc = "loop"
  /\ hookQueue = <<>>
  /\ rules = <<>>
  /\ verdict' = Some([shouldBlock |-> shouldBlock,
                      additionalContext |-> Some(additionalContext)])
  /\ hpc' = "returned"
  /\ UNCHANGED << config, runVars, matching, multiVars, dispatch, rules, hookQueue, shouldBlock,
                  additionalContext, children, cmd, results >>

\* ----------------------------------------------------------- matcherApplies
\* the character sequences of at most n characters
Strings(chars, n) == UNION { [1..k -> chars] : k \in 0..n }
MatcherChars == {"R", "*", ".", " "}
NameChars == {"R", ".", "\n"}
\* hookConfig.matcher is optional, eventData.tool_name is absent outside runTool
MatcherArgs == {None} \cup { Some(m) : m \in Strings(MatcherChars, MaxMatcherLen) }
ToolNameArgs == {None} \cup { Some(n) : n \in Strings(NameChars, MaxMatcherLen) }

MatcherInit ==
  /\ matching \in [matcher : MatcherArgs, toolName : ToolNameArgs, returned : {None}]
  /\ config = [budgets |-> [daily_tokens |-> None], hooks |-> Hooks]
  /\ Quiet
  /\ NoDispatch
  /\ NoMulti

\* part_010:207-222
matcherApplies_call ==
  /\ matching.returned = None
  /\ matching' =
       [matching EXCEPT !.returned = Some(matcherApplies(matching.matcher, matching.toolName))]
  /\ UNCHANGED << config, runVars, dispatchVars, multiVars >>

MatcherNext == matcherApplies_call

DispatchNext ==
  \/ executeHooks_call
  \/ executeHooks_rule
  \/ runHookCommand_spawn
  \/ \E stream \in {"stdout", "stderr"} : child_write(stream)
  \/ child_ends
  \/ killTimer_fires
  \/ \E stream \in {"stdout", "stderr"} : child_onData(stream)
  \/ child_onExit
  \/ child_onError
  \/ executeHooks_return

DispatchSpec == DispatchInit /\ [][DispatchNext]_vars

\* the dispatches of the runs' configuration, with the 'close' events of the children
CloseInit ==
  /\ DispatchInit
  /\ config.hooks = Hooks
CloseNext ==
  \/ DispatchNext
  \/ \E k \in 1..Len(children) : child_onClose(k)
CloseSpec == CloseInit /\ [][CloseNext]_vars

MatcherSpec == MatcherInit /\ [][MatcherNext]_vars

\* ------------------------------------------- runMultiple with parallel = true
\* Promise.all(ids.map((id) => this.runAgent(id, context))), agent-runner.ts:179: the
\* runAgent calls of one AgentRunner share its MetricsStore, its configuration and the
\* caller's context object, and each constructs a SessionManager of its own.  Every
\* await of runAgent, of getMetrics and of record is a step boundary; the contents a
\* readFile resolves with are those of the moment it read.  No write of these runs
\* fails and no agent throws: what those do is followed in Spec.
Run(agent) ==
  [ id |-> agent, pc |-> "idle", sessionId |-> 0, todays |-> <<>>, metrics |-> <<>>,
    result |-> None, returned |-> None, toolCalls |-> 0 ]
\* the ids of the call: an agent that declares a tool and is given a reminder, then
\* agents that declare none
RunIds == [k \in 1..MaxRuns |-> IF k = 1 THEN "claude-agent" ELSE "lint"]

MultiInit ==
  /\ config \in { [budgets |-> [daily_tokens |-> c], hooks |-> <<>>] : c \in {None, Some(2)} }
  /\ runs = [k \in 1..MaxRuns |-> Run(RunIds[k])]
  /\ sessions = [s \in 1..MaxRuns |-> <<>>]
  /\ batch = NoCall
  /\ Quiet
  /\ NoDispatch
  /\ matching = NoMatching

\* the variables of a single followed run, which these runs leave alone
idleVars ==
  << now, pc, id, session, dispatches, recorded, toolRunner, executions, agentOutcome,
     pending, returned, gate, metricsRead, startContext, tool, toolCalls, toolLimit >>

\* mutant: every SessionManager is given the same id
randomUUID_repeats(used) == 1

\* randomUUID() of session-manager.ts:12: an id no earlier batch returned; used is the
\* number of ids returned so far
randomUUID(used) == used + 1

\* session.log of run k: fs.appendFileSync(this.transcriptPath, ...)
appendFileSync(files, sessionId, data) == [files EXCEPT ![sessionId] = Append(@, data)]

\* agent-runner.ts:103-113 of batch k: new SessionManager(), the 'start' record, the
\* SessionStart dispatch begun.  map() makes the calls in the order of ids, each up
\* to its first await, before any of them is resumed.
run_start(k) ==
  /\ runs[k].pc = "idle"
  /\ IF batch.parallel
       THEN k > 1 => runs[k - 1].pc # "idle"
       \* the loop of line 181 calls runAgent for ids[k] after k - 1 results were pushed
       ELSE Len(batch.out) = k - 1 /\ batch.returned = None
  /\ LET sid == randomUUID(Cardinality({ j \in DOMAIN runs : runs[j].sessionId # 0 }))
     IN  /\ runs' = [runs EXCEPT ![k].sessionId = sid, ![k].pc = "SessionStart"]
         /\ sessions' = appendFileSync(sessions, sid, LogRecord("start", <<runs[k].id>>))
  /\ UNCHANGED << config, metricsDir, context, idleVars, dispatchVars, matching, batch >>

\* agent-runner.ts:113-132 of batch k: the verdict of SessionStart, its context merged
\* into the shared context object, getMetrics begun
run_sessionStart(k) ==
  /\ runs[k].pc = "SessionStart"
  \* map() has made every batch before the first continuation runs
  /\ batch.parallel => \A j \in DOMAIN runs : runs[j].pc # "idle"
  /\ LET agentProvider == getProviderFromModel(Agents[runs[k].id])
     IN  \E delivered \in ResultSeqs(config.hooks, "SessionStart", agentProvider, None) :
         LET sessionStartResult ==
               executeHooks(config.hooks, "SessionStart", agentProvider, None, delivered)
             extra == OrElse(sessionStartResult.additionalContext, <<>>)
         IN  IF extra # <<>>
               THEN /\ context' = [diff |-> mergeContext(context.diff, extra)]
                    /\ sessions' = appendFileSync(sessions, runs[k].sessionId,
                                                  LogRecord("context", extra))
               ELSE UNCHANGED << context, sessions >>
  /\ runs' = [runs EXCEPT ![k].pc = "getMetrics"]
  /\ UNCHANGED << config, metricsDir, idleVars, dispatchVars, matching, batch >>

\* metrics-store.ts:55-67 of batch k: the files are read
run_getMetrics(k) ==
  /\ runs[k].pc = "getMetrics"
  /\ runs' = [runs EXCEPT ![k].todays = getMetrics(metricsDir, now, TRUE), ![k].pc = "gate"]
  /\ UNCHANGED << config, metricsDir, context, sessions, idleVars, dispatchVars, matching, batch >>

\* agent-runner.ts:132-148 of batch k, after getMetrics resolved: the sum, the
\* comparison, new ToolRunner(...) and the batch of agent.execute
run_gate(k) ==
  /\ runs[k].pc = "gate"
  /\ IF budgetExhausted(sumTokens(runs[k].todays), config)
       THEN runs' = [runs EXCEPT ![k].returned = Some(Return(skippedResult(runs[k].id, now))),
                                 ![k].pc = "returned"]
       ELSE runs' = [runs EXCEPT ![k].pc = "execute"]
  /\ UNCHANGED << config, metricsDir, context, sessions, idleVars, dispatchVars, matching, batch >>

\* tool-runner.ts:19-26 of batch k: the agent calls a tool it declares; 'tool_start'
\* is written and PreToolUse dispatched
run_toolStart(k, name) ==
  /\ runs[k].pc = "execute"
  /\ runs[k].toolCalls < MaxToolCalls
  /\ name \in AgentTools[runs[k].id]
  /\ runs' = [runs EXCEPT ![k].toolCalls = @ + 1, ![k].pc = "runTool"]
  /\ sessions' = appendFileSync(sessions, runs[k].sessionId, LogRecord("tool_start", <<name>>))
  /\ UNCHANGED << config, metricsDir, context, idleVars, dispatchVars, matching, batch >>

\* tool-runner.ts:43-59 of batch k: no hook is configured, so the tool is executed;
\* 'tool_end' is written and the result handed back to the agent
run_toolEnd(k, result) ==
  /\ runs[k].pc = "runTool"
  /\ runs' = [runs EXCEPT ![k].pc = "execute"]
  /\ sessions' = appendFileSync(sessions, runs[k].sessionId, LogRecord("tool_end", result))
  /\ UNCHANGED << config, metricsDir, context, idleVars, dispatchVars, matching, batch >>

\* agent-runner.ts:148-149 of batch k: agent.execute returns, metrics.record is called
run_agentReturns(k, result) ==
  /\ runs[k].pc = "execute"
  /\ runs' = [runs EXCEPT ![k].result = Some(result), ![k].pc = "record"]
  /\ UNCHANGED << config, metricsDir, context, sessions, idleVars, dispatchVars, matching, batch >>

\* metrics-store.ts:21-27 of batch k: the day's file is read (none is [])
record_read(k) ==
  /\ runs[k].pc = "record"
  /\ runs' = [runs EXCEPT ![k].metrics = metricsDir[dateOf(Get(runs[k].result).timestamp)],
                          ![k].pc = "write"]
  /\ UNCHANGED << config, metricsDir, context, sessions, idleVars, dispatchVars, matching, batch >>

\* metrics-store.ts:28-29 and agent-runner.ts:157-167 of batch k: the metric pushed,
\* the file rewritten; then the 'result' record and the Stop dispatch begun
record_write(k) ==
  /\ runs[k].pc = "write"
  /\ LET result == Get(runs[k].result)
         m == Metric(runs[k].id, result.timestamp, OrElse(result.tokens_used, 0),
                     OrElse(result.cost, 0), result.status)
     IN  metricsDir' = [metricsDir EXCEPT ![dateOf(m.timestamp)] = Append(runs[k].metrics, m)]
  /\ sessions' = appendFileSync(sessions, runs[k].sessionId,
                                LogRecord("result", Get(runs[k].result)))
  /\ runs' = [runs EXCEPT ![k].pc = "Stop"]
  /\ UNCHANGED << config, context, idleVars, dispatchVars, matching, batch >>

\* agent-runner.ts:167-174 of batch k: the 'stop' record, the result returned; when
\* the write of the record throws (logOk false) the batch rejects
run_stop(k, logOk) ==
  /\ runs[k].pc = "Stop"
  /\ IF logOk
       THEN /\ sessions' = appendFileSync(sessions, runs[k].sessionId, LogRecord("stop", <<>>))
            /\ runs' = [runs EXCEPT ![k].returned = Some(Return(Get(runs[k].result))),
                                    ![k].pc = "returned"]
       ELSE /\ runs' = [runs EXCEPT ![k].returned = Some(Throw), ![k].pc = "returned"]
            /\ UNCHANGED sessions
  /\ UNCHANGED << config, metricsDir, context, idleVars, dispatchVars, matching, batch >>

MultiNext ==
  \E k \in 1..MaxRuns :
    \/ run_start(k)
    \/ run_sessionStart(k)
    \/ run_getMetrics(k)
    \/ run_gate(k)
    \/ \E name \in ToolNames : run_toolStart(k, name)
    \/ \E result \in ToolReturns : run_toolEnd(k, result)
    \/ \E result \in AgentReturns(runs[k].id, now) : run_agentReturns(k, result)
    \/ record_read(k)
    \/ record_write(k)
    \/ run_stop(k, TRUE)

MultiSpec == MultiInit /\ [][MultiNext]_vars

\* ------------------------------------------------ runMultiple and its options
\* agent-runner.ts:181-185: the awaited runAgent batch of ids[k] has completed: its
\* result is pushed, and the loop ends after the last id or, with failFast, after a
\* result of status 'failure'; a batch that rejected makes runMultiple reject
runMultiple_push(k) ==
  /\ ~batch.parallel
  /\ batch.returned = None
  /\ Len(batch.out) = k - 1
  /\ runs[k].pc = "returned"
  /\ IF Get(runs[k].returned).kind = "throw"
       THEN batch' = [batch EXCEPT !.returned = Some(Throw)]
       ELSE LET res == Get(runs[k].returned).value
                out == Append(batch.out, res)
            IN  batch' = [batch EXCEPT
                           !.out = out,
                           !.returned = IF \/ batch.failFast /\ res.status = "failure"
                                           \/ k = Len(runs)
                                          THEN Some(Return(out))
                                          ELSE None]
  /\ UNCHANGED << config, metricsDir, context, runs, sessions, idleVars, dispatchVars, matching >>

\* agent-runner.ts:179: Promise.all settles: with the results in the order of ids once
\* every batch has returned, or rejected as soon as one batch has
runMultiple_all ==
  /\ batch.parallel
  /\ batch.returned = None
  /\ \/ /\ \E k \in DOMAIN runs : runs[k].returned = Some(Throw)
        /\ batch' = [batch EXCEPT !.returned = Some(Throw)]
     \/ /\ \A k \in DOMAIN runs :
             runs[k].returned # None /\ Get(runs[k].returned).kind = "return"
        /\ batch' = [batch EXCEPT
                      !.returned = Some(Return([k \in DOMAIN runs |->
                                                  Get(runs[k].returned).value]))]
  /\ UNCHANGED << config, metricsDir, context, runs, sessions, idleVars, dispatchVars, matching >>

\* runMultiple(ids, context, options) with every choice of the options; the agents
\* make no tool batch
OptionsInit ==
  /\ config \in { [budgets |-> [daily_tokens |-> c], hooks |-> <<>>] : c \in {None, Some(2)} }
  /\ runs = [k \in 1..MaxRuns |-> Run(RunIds[k])]
  /\ sessions = [s \in 1..MaxRuns |-> <<>>]
  /\ batch \in [parallel : BOOLEAN, failFast : BOOLEAN, out : {<<>>}, returned : {None}]
  /\ Quiet
  /\ NoDispatch
  /\ matching = NoMatching
OptionsNext ==
  \/ \E k \in 1..MaxRuns :
       \/ run_start(k)
       \/ run_sessionStart(k)
       \/ run_getMetrics(k)
       \/ run_gate(k)
       \/ \E result \in AgentReturns(runs[k].id, now) : run_agentReturns(k, result)
       \/ record_read(k)
       \/ record_write(k)
       \/ \E logOk \in BOOLEAN : run_stop(k, logOk)
       \/ runMultiple_push(k)
  \/ runMultiple_all
OptionsSpec == OptionsInit /\ [][OptionsNext]_vars

\* --------------------------------------------------------------------- spec
Diffs == {None, Some(<<"diff">>)}

Next ==
  \/ \E i \in CallIds, diff \in Diffs, logOk \in BOOLEAN : runAgent_start(i, diff, logOk)
  \/ \E logOk \in BOOLEAN : runAgent_sessionStart(logOk)
  \/ \E readOk \in BOOLEAN : runAgent_budget(readOk)
  \/ \E result \in AgentReturns(id, now) : agent_return(result)
  \/ agent_throw
  \/ \E ioOk \in BOOLEAN, logOk \in BOOLEAN : runAgent_record(ioOk, logOk)
  \/ \E ioOk \in BOOLEAN, logOk \in BOOLEAN : runAgent_catch(ioOk, logOk)
  \/ \E logOk \in BOOLEAN : runAgent_finally(logOk)
  \/ \E name \in ToolNames, logOk \in BOOLEAN : runTool_begin(name, logOk)
  \/ runTool_preToolUse
  \/ \E result \in ToolReturns, logOk \in BOOLEAN, logOk2 \in BOOLEAN :
        runTool_executeReturns(result, logOk, logOk2)
  \/ \E logOk \in BOOLEAN : runTool_executeThrows(logOk)

Spec == Init /\ [][Next]_vars

\* ------------------------------------------------------------------ progress
\* hooks with and without a timeout of their own
TimedCmd(name, timeout) == [command |-> name, timeout |-> timeout]
TimedHooks ==
  [ openai |-> [ PreToolUse |-> << Rule(Some(<<"*">>), << TimedCmd("note", Some(0)),
                                                          TimedCmd("veto", Some(5)) >>) >>,
                 Stop       |-> << Rule(None, << TimedCmd("guard", None) >>) >> ] ]
\* either a dispatch of those hooks followed event by event, or a run of an agent that
\* makes no tool call, each of its dispatches one step
LiveInit ==
  \/ /\ config = [budgets |-> [daily_tokens |-> None], hooks |-> TimedHooks]
     /\ dispatch \in [ eventName : {"PreToolUse", "Stop"}, provider : {"openai", "claude"},
                       tool_name : {None, Some(ToolChars.Read)} ]
     /\ hpc = "call"
     /\ rules = <<>>
     /\ hookQueue = <<>>
     /\ shouldBlock = FALSE
     /\ additionalContext = <<>>
     /\ children = <<>>
     /\ cmd = NoCmd
     /\ results = <<>>
     /\ verdict = None
     /\ Quiet
     /\ matching = NoMatching
     /\ NoMulti
  \/ /\ Init
     /\ toolLimit = 0
     /\ metricsDir = EmptyDir
LiveNext ==
  \/ DispatchNext
  \/ hpc = "idle" /\ Next
\* what Node's event loop runs once it is due: the continuations of the dispatcher and
\* of runAgent, the handlers of emitted events, the timer's callback.  A hook process
\* and an agent's execute are under no obligation to go on.
Scheduled ==
  \/ executeHooks_call
  \/ executeHooks_rule
  \/ runHookCommand_spawn
  \/ killTimer_fires
  \/ \E stream \in {"stdout", "stderr"} : child_onData(stream)
  \/ child_onExit
  \/ child_onError
  \/ executeHooks_return
  \/ /\ hpc = "idle"
     /\ \/ \E logOk \in BOOLEAN : runAgent_sessionStart(logOk)
        \/ \E readOk \in BOOLEAN : runAgent_budget(readOk)
        \/ \E ioOk \in BOOLEAN, logOk \in BOOLEAN : runAgent_record(ioOk, logOk)
        \/ \E ioOk \in BOOLEAN, logOk \in BOOLEAN : runAgent_catch(ioOk, logOk)
        \/ \E logOk \in BOOLEAN : runAgent_finally(logOk)
LiveSpec == LiveInit /\ [][LiveNext]_vars /\ WF_vars(Scheduled)

\* ------------------------------------------------------------ observations
RECURSIVE count(_, _)
count(dispatched, eventName) ==
  IF dispatched = <<>> THEN 0
  ELSE (IF Head(dispatched).hook_event_name = eventName THEN 1 ELSE 0)
       + count(Tail(dispatched), eventName)

Returned == pc = "returned"
RegisteredRun == pc # "idle" /\ getAgent(id) # None
ReturnedValue == Returned /\ Get(returned).kind = "return"
Threw == Returned /\ Get(returned).kind = "throw"
GateDisallowed ==
  /\ gate # None
  /\ config.budgets.daily_tokens # None
  /\ Get(gate) >= Get(config.budgets.daily_tokens)
AgentThrew == agentOutcome # None /\ Get(agentOutcome).kind = "throw"

\* the transcript records and the dispatches of the runTool call held in tool
CallBegun == tool.name # ""
CallDone == CallBegun /\ tool.returned # None
CallLog ==
  SubSeq(session.transcript, tool.log0 + 1,
         IF CallDone THEN tool.log1 ELSE Len(session.transcript))
CallDispatches ==
  SubSeq(dispatches, tool.disp0 + 1, IF CallDone THEN tool.disp1 ELSE Len(dispatches))
Logged(records, type) == \E k \in 1..Len(records) : records[k].type = type
\* every session.log of the completed call succeeded
CallLogIntact ==
  /\ CallDone
  /\ Get(tool.returned).kind = "return"
  /\ Logged(CallLog, "tool_start")
  /\ (tool.outcome # None /\ Get(tool.outcome).kind = "return") => Logged(CallLog, "tool_end")

\* ------------------------------------------------------------------ claims

\* C1 (as claimed): every runAgent call with a registered id that returns has made
\* exactly one metrics.record call, whether the agent returned, the agent threw or
\* the budget gate skipped the run.
C1_OneMetricPerRun ==
  (RegisteredRun /\ ReturnedValue) => Len(recorded) = 1

\* C2 (as claimed): for every session runAgent opened, the Stop hooks have been
\* dispatched exactly once when runAgent returns, however the run ended.
C2_StopOncePerSession ==
  (session.open /\ ReturnedValue) => count(dispatches, "Stop") = 1

\* C3 (as claimed): when agent.execute throws, runAgent does not throw: it returns
\* the failure result 'Agent execution failed', has recorded exactly one metric, of
\* 0 tokens, cost 0 and result 'failure', and has dispatched the Stop hooks once.
C3_AgentThrowHandled ==
  (Returned /\ AgentThrew) =>
    /\ returned = Some(Return(errorResult(id, now)))
    /\ recorded = << Metric(id, now, 0, 0, "failure") >>
    /\ count(dispatches, "Stop") = 1

\* C4 (as claimed): when the budget gate disallows the run, the run is reported as
\* skipped and exactly one metric, with tokens_used = 0, is recorded for it.
C4_SkipRecordsZeroMetric ==
  (Returned /\ GateDisallowed) =>
    /\ ReturnedValue
    /\ Get(returned).value.status = "skipped"
    /\ Len(recorded) = 1
    /\ recorded[1].tokens_used = 0

\* C5: once the budget gate has summed the usage, the run is disallowed exactly when
\* the sum is at least config.budgets.daily_tokens (never when that is unset); a
\* disallowed run has returned status 'skipped' with 'Daily token budget exhausted',
\* with no ToolRunner built and agent.execute never invoked; an allowed run has
\* built the ToolRunner and invoked agent.execute.
C5_GateDecision ==
  gate # None =>
    IF GateDisallowed
      THEN /\ returned = Some(Return(skippedResult(id, now)))
           /\ ~toolRunner
           /\ executions = 0
           /\ agentOutcome = None
      ELSE /\ toolRunner
           /\ executions = 1
C5_Witness ==
  /\ Returned
  /\ GateDisallowed
  /\ Get(gate) = Get(config.budgets.daily_tokens)
  /\ Get(returned).value.status = "skipped"

\* C6 (as claimed): whichever transcript write fails, neither runAgent nor runTool
\* throws.
C6_LogFailureNotFatal ==
  /\ ~Threw
  /\ CallDone => Get(tool.returned).kind = "return"

\* C7: a PreToolUse verdict with shouldBlock = true makes runTool return the failure
\* 'Tool execution blocked by PreToolUse hook'; tool.execute is not invoked, and the
\* call dispatches no PostToolUse and logs no tool_end.
C7_BlockedToolNotExecuted ==
  tool.preBlock = Some(TRUE) =>
    /\ tool.returned = Some(Return(toolBlocked))
    /\ tool.executed = 0
    /\ tool.outcome = None
    /\ count(CallDispatches, "PostToolUse") = 0
    /\ ~Logged(CallLog, "tool_end")
    /\ pc # "toolExecute"
C7_Witness ==
  /\ tool.preBlock = Some(TRUE)
  /\ tool.returned = Some(Return(toolBlocked))
  /\ Returned

\* C8 (as claimed): a runTool call on a registered tool that PreToolUse did not block
\* has dispatched PostToolUse exactly once when it completes, whether the capability
\* returned success, returned a failure result or raised an exception.  Stated for
\* the calls whose transcript writes all succeeded.
C8_PostToolUseAlways ==
  (CallLogIntact /\ tool.preBlock = Some(FALSE)) =>
    count(CallDispatches, "PostToolUse") = 1

\* C9: runTool with a tool name that is not registered for the run returns the
\* failure 'Tool <name> not found' at once: the call dispatches no hook, appends
\* nothing to the transcript and invokes no capability.
C9_UnknownToolNoEffect ==
  (CallBegun /\ tool.name \notin AgentTools[id]) =>
    /\ tool.returned = Some(Return(toolNotFound(tool.name)))
    /\ CallDispatches = <<>>
    /\ CallLog = <<>>
    /\ tool.executed = 0
    /\ tool.preBlock = None
C9_Witness ==
  /\ CallDone
  /\ tool.name \notin AgentTools[id]
  /\ Returned
  /\ Len(session.transcript) > tool.log0

\* C10 (as claimed): when tool.execute throws, runTool does not throw: it returns a
\* failure result and has logged tool_error; when tool.execute returns, runTool has
\* logged tool_end and returns the tool's result unchanged.
C10_ToolOutcomeConverted ==
  (CallDone /\ tool.outcome # None) =>
    IF Get(tool.outcome).kind = "throw"
      THEN /\ tool.returned = Some(Return(toolError(tool.name)))
           /\ Logged(CallLog, "tool_error")
      ELSE /\ tool.returned = tool.outcome
           /\ Logged(CallLog, "tool_end")

\* ------------------------------------------------- claims on matcherApplies
\* the pattern language of the claim: '*' stands for any sequence, possibly empty,
\* every other character for itself
RECURSIVE globFits(_, _)
globFits(pattern, name) ==
  IF pattern = <<>> THEN name = <<>>
  ELSE IF Head(pattern) = "*"
    THEN \E k \in 0..Len(name) : globFits(Tail(pattern), SubSeq(name, k + 1, Len(name)))
    ELSE name # <<>> /\ Head(name) = Head(pattern) /\ globFits(Tail(pattern), Tail(name))

\* the same, with '*' standing for any sequence that holds no line terminator
RECURSIVE globFitsLine(_, _)
globFitsLine(pattern, name) ==
  IF pattern = <<>> THEN name = <<>>
  ELSE IF Head(pattern) = "*"
    THEN \E k \in 0..Len(name) :
           /\ \A j \in 1..k : name[j] # "\n"
           /\ globFitsLine(Tail(pattern), SubSeq(name, k + 1, Len(name)))
    ELSE /\ name # <<>>
         /\ Head(name) = Head(pattern)
         /\ globFitsLine(Tail(pattern), Tail(name))

\* a text without the white space around it
Stripped(text) ==
  LET inked == { k \in 1..Len(text) : text[k] \notin WhiteSpace }
  IN  IF inked = {} THEN <<>>
      ELSE SubSeq(text, CHOOSE k \in inked : \A j \in inked : k <= j,
                        CHOOSE k \in inked : \A j \in inked : k >= j)

\* C20 (as claimed): matcherApplies returns true for an absent, empty or '*' matcher
\* whatever the tool name; for any other matcher it returns false when the tool name
\* is absent and otherwise whether the whole tool name fits the pattern ('*' any
\* sequence, every other character literal).
C20_MatcherAsClaimed ==
  matching.returned # None =>
    Get(matching.returned) =
      IF matching.matcher \in {None, Some(<<>>), Some(<<"*">>)} THEN TRUE
      ELSE IF matching.toolName = None THEN FALSE
      ELSE globFits(Get(matching.matcher), Get(matching.toolName))

\* C20 (amended): the matcher is first trimmed of surrounding white space; an absent
\* matcher, or one that is empty or '*' after trimming, matches every tool name, an
\* absent one included; any other matcher matches neither an absent nor an empty
\* tool name, and otherwise matches exactly when the whole tool name fits the trimmed
\* pattern, in which '*' stands for any sequence of characters other than line
\* terminators and every other character is literal.
C20_MatcherTrimmed ==
  matching.returned # None =>
    LET m == Stripped(OrElse(matching.matcher, <<>>))
    IN  Get(matching.returned) =
          IF m \in {<<>>, <<"*">>} THEN TRUE
          ELSE IF matching.toolName \in {None, Some(<<>>)} THEN FALSE
          ELSE globFitsLine(m, Get(matching.toolName))
C20_Witness ==
  /\ matching.matcher = Some(<<"R", "*">>)
  /\ matching.toolName = Some(<<"R", ".", "R">>)
  /\ matching.returned = Some(TRUE)

\* --------------------------------------------------- claims on executeHooks
Done == hpc = "returned"
Verdict == Get(verdict)
\* the document a hook's output is, when it is one complete JSON document
SaysBlock(result) ==
  /\ result.stdout # <<>>
  /\ JSONparse(result.stdout) # None
  /\ \/ Get(JSONparse(result.stdout)).continue = Some(FALSE)
     \/ Get(JSONparse(result.stdout)).decision = Some("block")
SignalsBlock(result) == result.code = 2 \/ SaysBlock(result)
\* a matcher applies, in the words of the amended C20
Matches(matcher, name) ==
  LET m == Stripped(OrElse(matcher, <<>>))
  IN  IF m \in {<<>>, <<"*">>} THEN TRUE
      ELSE IF name \in {None, Some(<<>>)} THEN FALSE
      ELSE globFitsLine(m, Get(name))
\* the rules configured for the dispatched pair, generic set first, and the commands
\* of those whose matcher applies, in configuration order
Configured ==
  rulesOf(config.hooks, "generic", dispatch.eventName)
    \o rulesOf(config.hooks, dispatch.provider, dispatch.eventName)
RECURSIVE CommandsOf(_)
CommandsOf(hookConfigs) ==
  IF hookConfigs = <<>> THEN <<>>
  ELSE (IF Matches(Head(hookConfigs).matcher, dispatch.tool_name)
          THEN [k \in 1..Len(Head(hookConfigs).hooks) |-> Head(hookConfigs).hooks[k].command]
          ELSE <<>>)
       \o CommandsOf(Tail(hookConfigs))
Expected == CommandsOf(Configured)
RECURSIVE Occurrences(_, _)
Occurrences(text, piece) ==
  IF text = <<>> THEN 0
  ELSE (IF Head(text) = piece THEN 1 ELSE 0) + Occurrences(Tail(text), piece)

C13_BlockSticksNoShortCircuit ==
  (\E k \in 1..Len(results) : SignalsBlock(results[k].result)) =>
    /\ shouldBlock
    /\ Done => /\ Len(children) = Len(Expected)
               /\ Len(results) = Len(Expected)
               /\ Verdict.shouldBlock
C13_Witness ==
  /\ Done
  /\ config.hooks = ThreeHooks
  /\ Len(results) = 3
  /\ results[1].result = HookResult(<<"plain">>, <<>>, 0)
  /\ results[2].result = HookResult(JsonText("block"), <<>>, 0)
  /\ results[3].result = HookResult(<<"plain">>, <<>>, 0)
  /\ Verdict.shouldBlock

\* C14: the hook processes of a dispatch are started in configuration order (generic
\* rules, then the provider's; rules and the commands of a rule as declared), each
\* only after the result of the one before it was delivered, so that at most one of
\* them is running at any time.
C14_SequentialInOrder ==
  /\ Len(children) <= Len(Expected)
  /\ \A k \in 1..Len(children) : children[k].command = Expected[k]
  /\ Len(results) >= Len(children) - 1
  /\ Cardinality({ k \in 1..Len(children) : children[k].phase = "running" }) <= 1
C14_Witness ==
  /\ config.hooks = MixedHooks
  /\ Len(children) = 3
  /\ children[1].command = "note"
  /\ children[2].command = "guard"
  /\ children[3].command = "veto"
  /\ children[3].phase = "running"
  /\ Len(results) = 2

\* C15 (as claimed): when no hook matches the dispatched (event, namespace) pair and
\* the namespace is not 'claude', executeHooks runs no process and returns
\* shouldBlock = false with the empty string as additionalContext.
C15_NoHookEmptyContext ==
  (Done /\ Expected = <<>> /\ dispatch.provider # "claude") =>
    /\ children = <<>>
    /\ Verdict = [shouldBlock |-> FALSE, additionalContext |-> Some(<<>>)]

\* C15 (amended): in that case executeHooks runs no process and returns
\* shouldBlock = false; additionalContext is absent when no rule at all is configured
\* for the pair, and the empty string when rules are configured and none applies.
C15_NoHookNoContext ==
  (Done /\ Expected = <<>> /\ dispatch.provider # "claude") =>
    /\ children = <<>>
    /\ Verdict = [ shouldBlock |-> FALSE,
                   additionalContext |-> IF Configured = <<>> THEN None ELSE Some(<<>>) ]
C15_Witness ==
  /\ Done
  /\ dispatch.provider = "openai"
  /\ Configured # <<>>
  /\ Expected = <<>>
  /\ Verdict.additionalContext = Some(<<>>)

\* C16: the verdict of a dispatch for the 'claude' namespace carries an
\* additionalContext that holds the built-in reminder exactly once, with no hook
\* configured and with any number of them; the verdict of any other namespace never
\* holds it.
C16_ReminderOnlyForClaude ==
  Done =>
    Occurrences(OrElse(Verdict.additionalContext, <<>>), CLAUDE_SYSTEM_REMINDER)
      = IF dispatch.provider = "claude" THEN 1 ELSE 0
C16_Witness ==
  /\ Done
  /\ dispatch.provider = "claude"
  /\ Len(results) = 1
  /\ Verdict.additionalContext = Some(<<CLAUDE_SYSTEM_REMINDER, NL, "ctx">>)

\* C17: a hook whose timer fired is killed and its result has exit code 124 and a
\* diagnostic text that ends with 'Hook timed out'; the result holds the output
\* captured so far, so the hook blocks exactly when that output is a complete JSON
\* document that says so.
C17_TimeoutResult ==
  \A k \in 1..Len(results) :
    results[k].timedOut =>
      /\ children[k].phase = "exited"
      /\ results[k].result.code = 124
      /\ results[k].result.stderr # <<>>
      /\ results[k].result.stderr[Len(results[k].result.stderr)] = "Hook timed out"
      /\ (Len(results) = 1 /\ Done) => (Verdict.shouldBlock <=> SaysBlock(results[k].result))
C17_Witness ==
  /\ Done
  /\ Len(results) = 1
  /\ results[1].timedOut
  /\ children[1].code = None
  /\ results[1].result.stdout = JsonText("block")
  /\ Verdict.shouldBlock

\* C18 (as claimed): the result delivered for a hook holds everything its child
\* wrote to its output and diagnostic streams before it terminated.
C18_OutputFullyCaptured ==
  \A k \in 1..Len(results) :
    /\ results[k].result.stdout = results[k].wrote.stdout
    /\ Len(results[k].result.stderr) >= Len(results[k].wrote.stderr)
    /\ SubSeq(results[k].result.stderr, 1, Len(results[k].wrote.stderr))
         = results[k].wrote.stderr

\* C19: a hook that could not be started (code -1), that exited with a code other
\* than 0 and 2, or whose output is not a JSON document does not end the dispatch:
\* every matching hook is still run, a verdict is returned, and the verdict blocks
\* only if some hook of the dispatch signalled a block.
Fails(result) ==
  \/ result.code \notin {0, 2}
  \/ result.stdout # <<>> /\ JSONparse(result.stdout) = None
Reminder == IF dispatch.provider = "claude" THEN <<CLAUDE_SYSTEM_REMINDER, NL>> ELSE <<>>
\* the events at which plain text is context
ContextEvents == {"SessionStart", "UserPromptSubmit"}
\* what the result of one hook contributes to the context of the dispatch
Contributed(result) ==
  IF result.stdout = <<>> THEN <<>>
  ELSE IF JSONparse(result.stdout) # None
    THEN OrElse(Get(JSONparse(result.stdout)).additionalContext, <<>>)
  ELSE IF dispatch.eventName \in ContextEvents THEN result.stdout
  ELSE <<>>
RECURSIVE Contributions(_)
Contributions(delivered) ==
  IF delivered = <<>> THEN <<>>
  ELSE Contributed(Head(delivered).result) \o Contributions(Tail(delivered))

\* C21: the context of a dispatch is, after the reminder of a 'claude' dispatch, the
\* contributions of the hooks run so far in the order they were run, and the verdict
\* of a dispatch that ran its loops carries exactly that.
C21_ContextInExecutionOrder ==
  /\ hpc \in {"loop", "await"} => additionalContext = Reminder \o Contributions(results)
  /\ (Done /\ Configured # <<>>) =>
       Verdict.additionalContext = Some(Reminder \o Contributions(results))
C21_Witness ==
  /\ Done
  /\ dispatch.provider = "claude"
  /\ Len(results) = 2
  /\ results[1].result.stdout = <<"plain">>
  /\ results[2].result.stdout = JsonText("approve")
  /\ Verdict.additionalContext = Some(<<CLAUDE_SYSTEM_REMINDER, NL, "plain", "ctx">>)

\* C22: a result whose stdout is not a JSON document adds that stdout to the context
\* when the event is SessionStart or UserPromptSubmit and adds nothing at any other
\* event.
C22_PlainTextOnlyAtContextEvents ==
  [][ (Len(results') = Len(results) + 1
        /\ results'[Len(results')].result.stdout # <<>>
        /\ JSONparse(results'[Len(results')].result.stdout) = None) =>
      additionalContext' =
        additionalContext \o (IF dispatch.eventName \in ContextEvents
                                THEN results'[Len(results')].result.stdout
                                ELSE <<>>) ]_vars
C22_Witness ==
  /\ Done
  /\ dispatch.eventName = "PreToolUse"
  /\ dispatch.provider = "openai"
  /\ Len(results) = 1
  /\ results[1].result = HookResult(<<"plain">>, <<>>, 0)
  /\ Verdict.additionalContext = Some(<<>>)

\* ------------------------------------------------- claims on the budget gate
\* the tokens of the metrics of one file, and of all files, that were recorded in the
\* 24 hours before time t
RECURSIVE TokensSince(_, _)
TokensSince(data, t) ==
  IF data = <<>> THEN 0
  ELSE (IF Head(data).timestamp >= t - TicksPerDay /\ Head(data).timestamp <= t
          THEN Head(data).tokens_used
          ELSE 0)
       + TokensSince(Tail(data), t)
RECURSIVE WindowTokens(_, _, _)
WindowTokens(dir, days, t) ==
  IF days = {} THEN 0
  ELSE LET d == CHOOSE x \in days : TRUE
       IN  TokensSince(dir[d], t) + WindowTokens(dir, days \ {d}, t)
\* the budget check was made and nothing was recorded since
Checked == gate # None /\ recorded = <<>>

\* C23 (as claimed): the usage the budget check compares with the ceiling is the sum
\* of tokens_used of all stored metrics of the preceding 24 hours, whichever day's
\* file holds them.
C23_GateSumsTrailingWindow ==
  (Checked /\ metricsRead = Some(TRUE)) =>
    Get(gate) = WindowTokens(metricsDir, DOMAIN metricsDir, now)

\* C24 (as claimed): a run whose metrics read failed is not skipped, whatever the
\* ceiling: agent.execute is invoked.
C24_ReadFailureAllowsRun ==
  metricsRead = Some(FALSE) => (executions = 1 /\ toolRunner)

\* C24 (amended): a run whose metrics read failed counts a usage of 0: it is not
\* skipped and agent.execute is invoked when the ceiling is above 0 or absent, and it
\* is skipped when the ceiling is 0.
C24_ReadFailureCountsZero ==
  metricsRead = Some(FALSE) =>
    /\ gate = Some(0)
    /\ IF dailyCeiling(config) > 0
         THEN executions = 1 /\ toolRunner
         ELSE executions = 0 /\ returned = Some(Return(skippedResult(id, now)))
C24_Witness ==
  /\ metricsRead = Some(FALSE)
  /\ config.budgets.daily_tokens = Some(2)
  /\ WindowTokens(metricsDir, DOMAIN metricsDir, now) >= 2
  /\ recorded = <<>>
  /\ executions = 1
  /\ pc = "execute"

\* --------------------------------------------------- claims on the lifecycle
AgentReturned == agentOutcome # None /\ Get(agentOutcome).kind = "return"
\* the lifecycle records of a transcript: those that are not of a tool call and not
\* the note of the merged context
RECURSIVE Lifecycle(_)
Lifecycle(records) ==
  IF records = <<>> THEN <<>>
  ELSE (IF Head(records).type \in {"start", "result", "error", "stop"}
          THEN <<Head(records).type>>
          ELSE <<>>)
       \o Lifecycle(Tail(records))

\* C27 (as claimed): when agent.execute returned a result, runAgent returns that very
\* result, whatever its status, and has recorded one metric, with the status, the
\* tokens_used and the cost of that result (0 where the result has none).
C27_ResultForwarded ==
  (Returned /\ AgentReturned) =>
    LET result == Get(agentOutcome).value
    IN  /\ returned = Some(Return(result))
        /\ recorded = << Metric(id, result.timestamp, OrElse(result.tokens_used, 0),
                                OrElse(result.cost, 0), result.status) >>

\* C28 (as claimed): in a run of a registered agent the transcript begins with the
\* 'start' record, the SessionStart dispatch is the first dispatch, the budget check
\* follows it, agent.execute follows the check, a metric is recorded only after
\* agent.execute, no step is made twice, and a run that has returned has dispatched
\* Stop as its last dispatch and written 'stop' as its last record, after 'result'
\* or 'error' when the agent was executed.
C28_LifecycleOrder ==
  RegisteredRun =>
    /\ dispatches # <<>> =>
         /\ Lifecycle(session.transcript) # <<>>
         /\ Head(Lifecycle(session.transcript)) = "start"
         /\ dispatches[1].hook_event_name = "SessionStart"
    /\ count(dispatches, "SessionStart") <= 1
    /\ count(dispatches, "Stop") <= 1
    /\ gate # None => count(dispatches, "SessionStart") = 1
    /\ executions <= 1
    /\ executions = 1 => gate # None
    /\ Len(recorded) <= executions
    /\ ReturnedValue =>
         /\ dispatches[Len(dispatches)].hook_event_name = "Stop"
         /\ Lifecycle(session.transcript) \in
              (IF executions = 1
                 THEN { <<"start", "result", "stop">>, <<"start", "error", "stop">> }
                 ELSE { <<"start", "stop">> })
         /\ session.transcript[Len(session.transcript)].type = "stop"
         /\ Len(recorded) = executions

\* C29: the SessionStart step leaves the diff as it is when the verdict carries no
\* context (none, or the empty string) and otherwise makes it the diff it found (''
\* when there was none), a newline and the verdict's context; no later step of the
\* run changes it, so that is the diff agent.execute receives.
C29_ContextConcatenated ==
  [][ /\ (pc = "SessionStart" /\ pc' # "SessionStart") =>
           context'.diff =
             IF Get(startContext') \in {None, Some(<<>>)}
               THEN context.diff
               ELSE Some(OrElse(context.diff, <<>>) \o <<NL>> \o Get(Get(startContext')))
      /\ pc \notin {"idle", "SessionStart"} => context' = context ]_vars
C29_Witness ==
  /\ pc = "execute"
  /\ startContext = Some(Some(<<"plain">>))
  /\ context.diff = Some(<<"diff", NL, "plain">>)

\* ----------------------------------------------------- claims on runMultiple
\* record calls that have completed, and the metrics the files hold
RecordsCompleted ==
  Cardinality({ k \in DOMAIN runs : runs[k].result # None /\ runs[k].pc \in {"Stop", "returned"} })
RECURSIVE StoredMetrics(_, _)
StoredMetrics(dir, days) ==
  IF days = {} THEN 0
  ELSE LET d == CHOOSE x \in days : TRUE
       IN  Len(dir[d]) + StoredMetrics(dir, days \ {d})

\* C25 (as claimed): no call of runMultiple starts agent.execute at a moment when the
\* metrics stored for the preceding 24 hours meet or exceed the ceiling.
C25_NoExecuteOverCeiling ==
  [][ \A k \in DOMAIN runs :
        (runs[k].pc = "gate" /\ runs'[k].pc = "execute") =>
          WindowTokens(metricsDir, DOMAIN metricsDir, now) < dailyCeiling(config) ]_vars

\* C26 (as claimed): the files hold as many metrics as record calls have completed,
\* also when the calls of several runs overlap.
C26_NoLostUpdate ==
  runs # <<>> => StoredMetrics(metricsDir, DOMAIN metricsDir) = RecordsCompleted

\* C30: no two runs have the same transcript; a step leaves every transcript as it
\* is or adds one record at the end of one transcript, that of the run that took the
\* step; and the transcript of a run that returned holds its records in the order of
\* its log calls: 'start' first, then 'result' and 'stop' when the agent was executed.
C30_TranscriptAppendOnly ==
  /\ [](\A j, k \in DOMAIN runs :
          (j # k /\ runs[j].sessionId # 0) => runs[j].sessionId # runs[k].sessionId)
  /\ [][ \A s \in DOMAIN sessions :
           \/ sessions'[s] = sessions[s]
           \/ /\ sessions'[s] # <<>>
              /\ sessions[s] = SubSeq(sessions'[s], 1, Len(sessions'[s]) - 1)
              /\ \E k \in DOMAIN runs : runs'[k] # runs[k] /\ runs'[k].sessionId = s
              /\ \A t \in DOMAIN sessions \ {s} : sessions'[t] = sessions[t] ]_vars
  /\ [](\A k \in DOMAIN runs :
          runs[k].pc = "returned" =>
            /\ Lifecycle(sessions[runs[k].sessionId]) =
                 (IF runs[k].result # None THEN <<"start", "result", "stop">> ELSE <<"start">>)
            /\ sessions[runs[k].sessionId][1].type = "start")
C30_Witness ==
  /\ runs # <<>>
  /\ \A k \in DOMAIN runs : runs[k].pc = "returned" /\ runs[k].result # None
  /\ \E n \in 1..Len(sessions[1]) : sessions[1][n].type = "tool_end"
  /\ Len(sessions[2]) = 3

\* ------------------------------------------ claims on the rule set and the timer
\* the rules of the dispatched pair with each configuration entry taken once: for the
\* 'generic' namespace the generic set is the namespace's set
ConfiguredOnce ==
  rulesOf(config.hooks, "generic", dispatch.eventName)
    \o (IF dispatch.provider = "generic"
          THEN <<>>
          ELSE rulesOf(config.hooks, dispatch.provider, dispatch.eventName))

\* C32: in one dispatch each configured hook command whose rule matches is invoked
\* exactly once, also when the namespace of the run is 'generic', where the generic
\* rule set and the namespace's rule set are the same configuration entry.
C32_EachHookOnce ==
  Done => [k \in 1..Len(children) |-> children[k].command] = CommandsOf(ConfiguredOnce)

\* C33: exit code 124 is reported only for a hook that was still running when its
\* timer fired: a hook that ended on its own before that has its own exit code
\* delivered, however the timer callback and the 'exit' event are interleaved.
C33_TimeoutOnlyWhileRunning ==
  \A k \in 1..Len(results) :
    children[k].code # None => results[k].result.code = Get(children[k].code)

\* ------------------------------------------------- claims on the shared context
\* the context the SessionStart dispatch of run k injects (these runs have no hook
\* configured, so it is what executeHooks returns with no process run), and the diff
\* run k's agent is to be given when only that is merged into the caller's
InjectedFor(k) ==
  OrElse(executeHooks(config.hooks, "SessionStart",
                      getProviderFromModel(Agents[runs[k].id]), None, <<>>).additionalContext,
         <<>>)
OwnDiff(k, callers) ==
  IF InjectedFor(k) = <<>> THEN callers ELSE mergeContext(callers, InjectedFor(k))

\* C36: runAgent leaves the caller's context object unchanged, and the context an
\* agent of a runMultiple call is given holds the caller's diff and what its own
\* SessionStart dispatch injected, never what was injected for another run.
C36_ContextNotShared ==
  [][ /\ context' = context
      /\ \A k \in DOMAIN runs :
           (runs[k].pc = "gate" /\ runs'[k].pc = "execute") =>
             context.diff = OwnDiff(k, None) ]_vars

\* ------------------------------------------------ claims on the unregistered id
\* C39: runAgent with an id that is not registered returns the failure result
\* 'Agent <id> not found' and does nothing else: no session is opened, no transcript
\* record written, no hook dispatched, the budget gate not consulted, no metric
\* recorded, no ToolRunner made and agent.execute of no agent invoked.
C39_UnknownIdNoEffect ==
  (pc # "idle" /\ getAgent(id) = None) =>
    /\ Returned
    /\ returned = Some(Return(AgentResult(id, "failure", Some(<<"Agent ", id, " not found">>),
                                          None, None, now)))
    /\ session = NoSession
    /\ dispatches = <<>>
    /\ gate = None
    /\ metricsRead = None
    /\ recorded = <<>>
    /\ \A day \in DOMAIN metricsDir :
         \A k \in 1..Len(metricsDir[day]) : metricsDir[day][k].agent_id # id
    /\ ~toolRunner
    /\ executions = 0
    /\ tool = NoTool
C39_Witness ==
  /\ Returned
  /\ id = "ghost"
  /\ context.diff = Some(<<"diff">>)
  /\ config.budgets.daily_tokens = Some(0)
  /\ Get(returned).value.error = Some(<<"Agent ", "ghost", " not found">>)
  /\ session = NoSession

\* ---------------------------------------------- claims on the provider namespace
\* model names: those of the registered agents, one of each known prefix, and names
\* that hold a prefix's letters without starting with the prefix
ModelNames ==
  { Agents[a] : a \in AgentIds }
    \cup { <<"g", "e", "m", "i", "n", "i", "-", "p", "r", "o">>,
           <<"g", "e", "m", "i", "n", "i">>,
           <<"g", "p", "t", "-">>,
           <<"g", "p", "t", "4">>,
           <<"c", "l", "a", "u", "d", "e">>,
           <<"G", "P", "T", "-", "4">>,
           <<"x", "-", "g", "p", "t", "-", "4">>,
           <<>> }
\* the namespace of a model name, by the table of the claim
Begins(name, prefix) ==
  /\ Len(name) >= Len(prefix)
  /\ \A k \in 1..Len(prefix) : name[k] = prefix[k]
NamespaceOf(name) ==
  CASE Begins(name, <<"g", "p", "t", "-">>) -> "openai"
    [] Begins(name, <<"c", "l", "a", "u", "d", "e", "-">>) -> "claude"
    [] Begins(name, <<"g", "e", "m", "i", "n", "i", "-">>) -> "gemini"
    [] OTHER -> "generic"

\* getProviderFromModel agrees with the table on every model name
TableHolds == \A name \in ModelNames : getProviderFromModel(name) = NamespaceOf(name)

\* C31: the namespace of a model name is 'openai' for the prefix 'gpt-', 'claude' for
\* 'claude-', 'gemini' for 'gemini-' and 'generic' for anything else, and every
\* dispatch of a run (SessionStart, PreToolUse, PostToolUse, Stop) is made for the
\* namespace of the run's agent's model.
C31_NamespaceFromModelPrefix ==
  /\ TableHolds
  /\ RegisteredRun =>
       \A k \in 1..Len(dispatches) : dispatches[k].provider = NamespaceOf(Agents[id])
C31_Witness ==
  /\ Returned
  /\ id = "security-scan"
  /\ Len(dispatches) = 4
  /\ [k \in 1..4 |-> dispatches[k].hook_event_name]
       = <<"SessionStart", "PreToolUse", "PostToolUse", "Stop">>
  /\ \A k \in 1..4 : dispatches[k].provider = "openai"

\* -------------------------------------------------- claims on ignored verdicts
\* the dispatches of the run for an event whose verdict said to block
Blocked(dispatched, eventName) ==
  \E k \in 1..Len(dispatched) :
    dispatched[k].hook_event_name = eventName /\ dispatched[k].shouldBlock

\* C37: a blocking verdict of the SessionStart, PostToolUse or Stop dispatch changes
\* nothing: after a blocking SessionStart the run goes on to the budget gate and
\* agent.execute is invoked when the gate allows it, a tool call whose PostToolUse
\* verdict blocks returns the tool's own result, and a run whose Stop verdict blocks
\* returns what its try/catch block completed with; a PreToolUse block is the one
\* that changes an outcome (the tool is not executed).
C37_OnlyPreToolUseBlocks ==
  /\ Blocked(dispatches, "SessionStart") =>
       /\ (Returned /\ gate = None) => Threw
       /\ (gate # None /\ ~GateDisallowed) => executions = 1
       /\ (gate # None /\ GateDisallowed) => ReturnedValue
  /\ (CallDone /\ Blocked(CallDispatches, "PostToolUse")) =>
       /\ tool.executed = 1
       /\ tool.returned = tool.outcome
  /\ (Blocked(dispatches, "Stop") /\ Logged(session.transcript, "stop")) =>
       /\ Returned
       /\ returned = pending
  /\ (CallDone /\ Blocked(CallDispatches, "PreToolUse")) =>
       /\ tool.executed = 0
       /\ Get(tool.returned) \in {Return(toolBlocked), Throw}
C37_Witness ==
  /\ Returned
  /\ id = "security-scan"
  /\ Blocked(dispatches, "SessionStart")
  /\ Blocked(dispatches, "PostToolUse")
  /\ Blocked(dispatches, "Stop")
  /\ ~Blocked(dispatches, "PreToolUse")
  /\ executions = 1
  /\ tool.returned = Some(Return(ToolResult(TRUE, Some(<<"content">>), None)))
  /\ returned = agentOutcome
  /\ Get(returned).value.status = "success"

\* ------------------------------------------------ claims on the child's events
\* C34: each hook invocation delivers exactly one result: the first of the child's
\* 'exit' and 'error' events settles it, the events that follow for that child
\* ('close') deliver nothing more, and the kill timer is cancelled when the result is
\* delivered, so the timer never fires for an invocation that is settled.
C34_OneResultPerInvocation ==
  /\ Len(results) <= Len(children)
  /\ \A k \in 1..Len(results) : results[k].command = children[k].command
  /\ \A k \in 1..Len(children) : children[k].phase = "closed" => k <= Len(results)
  /\ Done => Len(results) = Len(children)
  /\ cmd.settled =>
       /\ ~cmd.killTimer
       /\ Len(results) = Len(children)
       /\ cmd.timedOut => results[Len(results)].timedOut
C34_Witness ==
  /\ Done
  /\ Len(children) = 2
  /\ children[1].phase = "closed"
  /\ children[2].phase = "closed"
  /\ Len(results) = 2
  /\ results[1].result.code = 124
  /\ results[2].result.code = -1

\* ------------------------------------------------------- claims on termination
\* the hooks of the configuration, and the delay the claim gives a hook's timer
AllCmds ==
  UNION { UNION { UNION { { config.hooks[ns][ev][r].hooks[h] :
                              h \in 1..Len(config.hooks[ns][ev][r].hooks) } :
                          r \in 1..Len(config.hooks[ns][ev]) } :
                  ev \in DOMAIN config.hooks[ns] } :
          ns \in DOMAIN config.hooks }
ClaimedDelays(command) ==
  { IF h.timeout = None THEN 10000 ELSE IF Get(h.timeout) < 1 THEN 1 ELSE Get(h.timeout) :
      h \in { c \in AllCmds : c.command = command } }

\* C35: every dispatch terminates: the timer of a hook is set to the rule's timeout,
\* at least 1 ms, or to 10 s when none is given, and a hook process that never exits
\* on its own is killed when it fires and its invocation settled, so executeHooks
\* returns; and runAgent completes once agent.execute has returned or thrown.
C35_EveryDispatchTerminates ==
  /\ [](cmd.killTimer => cmd.delay \in ClaimedDelays(child.command))
  /\ (hpc = "call") ~> Done
  /\ (agentOutcome # None) ~> Returned
C35_Witness ==
  /\ Done
  /\ Len(results) = 2
  /\ \A k \in 1..2 : results[k].timedOut /\ children[k].code = None
  /\ results[1].wrote.stdout = <<>>
  /\ cmd.delay = 5

\* ---------------------------------------------------------------- C38
Finished(k) == runs[k].returned # None /\ Get(runs[k].returned).kind = "return"
ResultOf(k) == Get(runs[k].returned).value
Failed(k) == Finished(k) /\ ResultOf(k).status = "failure"
\* the number of results of a sequential call: up to the first 'failure' with
\* failFast, every id without
ExpectedLen ==
  IF batch.failFast /\ \E k \in DOMAIN runs : Failed(k)
    THEN CHOOSE k \in DOMAIN runs : Failed(k) /\ \A j \in 1..(k - 1) : ~Failed(j)
    ELSE Len(runs)
OrderedResults ==
  /\ ~batch.parallel =>
       \A k \in DOMAIN runs : runs[k].pc # "idle" =>
         \A j \in 1..(k - 1) : runs[j].pc = "returned" /\ ~(batch.failFast /\ Failed(j))
  /\ \A r \in batch.returned : r.kind = "return" =>
       /\ Len(r.value) = IF batch.parallel THEN Len(runs) ELSE ExpectedLen
       /\ \A k \in 1..Len(r.value) : Finished(k) /\ r.value[k] = ResultOf(k)
       /\ \A k \in 1..Len(r.value) : r.value[k].agent_id = RunIds[k]
\* C38: runMultiple with parallel = false runs the agents one after another in the
\* order of ids and returns their results in that order; with failFast = true it
\* stops after the first result of status 'failure', which is the last element of
\* what it returns, later agents never run, and a 'skipped' result does not stop it;
\* with parallel = true it returns one result per id, result i belonging to ids[i].
\* In either mode the call returns results: it does not reject.
C38_RunMultipleResults ==
  /\ batch.returned # Some(Throw)
  /\ OrderedResults

====
